---- MODULE Spec2Model ----
(***************************************************************************)
(* Ozwel AI Embed: the medical MCP agent (MCPClient, LLMManager,           *)
(* MedicalMCPServer sharing one window), the SimpleChatbot /               *)
(* OzwelAIChatbot widgets and OzwellIntegration, as state machines.        *)
(*                                                                         *)
(* JavaScript strings are sequences of one-character strings, so that      *)
(* toLowerCase(), includes() and === are computed, not assumed.            *)
(***************************************************************************)
EXTENDS Integers, Sequences, FiniteSets, TLC

VARIABLES
    localMedications,   \* MedicalMCPServer.localMedications
    localAllergies,     \* MedicalMCPServer.localAllergies
    initialized,        \* MedicalMCPServer.initialized
    now,                \* the value Date.now() last returned
    outbox,             \* the postMessage calls of the last task that leave the window
    event,              \* the event the last task handled
    queue,              \* messages posted to the agent window, not yet dispatched
    chatHistory,        \* MCPClient.chatHistory
    requestCounter,     \* MCPClient.requestCounter
    processingMessage,  \* MCPClient._processingMessage
    currentProvider,    \* LLMManager.currentProvider
    llmCall,            \* the generateResponse call processMessage awaits
    widget,             \* which chatbot class the page runs
    localStorageKey,    \* localStorage["openai_api_key"]
    apiKey,             \* SimpleChatbot / OzwelAIChatbot .apiKey
    messages,           \* SimpleChatbot / OzwelAIChatbot .messages
    botPc,              \* where the chatbot's sendMessage call waits
    botCall,            \* the message and the key that call works with
    requests,           \* every network request the chatbot page has caused
    ozApiKey,           \* OzwellIntegration.apiKey
    useSimulationMode,  \* OzwellIntegration.useSimulationMode
    toolsContext,       \* OzwellIntegration.toolsContext
    ozEnvLoading,       \* the constructor's loadEnvironmentVariables is in flight
    ozPc,               \* where OzwellIntegration.generateResponse waits
    ozCall,             \* the messages and the key that call works with
    ozResult,           \* what the last generateResponse call settled with
    isOpen,             \* OzwellIframe.isOpen
    containerDisplay,   \* OzwellIframe.container.style.display
    containerWidth,     \* OzwellIframe.container.style.width
    containerHeight,    \* OzwellIframe.container.style.height
    connectionStatus,   \* textContent of the chatbot's #connection-status
    reconnecting,       \* timers of reconnect() that have not fired yet
    proxyPc,            \* per request: where the handler of POST /api/openai/chat stands
    proxyBody,          \* per request: req.body
    proxyContacted,     \* per request: the handler has called api.openai.com
    proxyUpstream,      \* per request: what api.openai.com answered
    proxySent,          \* per request: the responses sent to the client
    patientData,        \* MedicalDataManager.patientData: medications and allergies
    medicalData,        \* the localStorage entry 'medicalData'
    parentIsSelf        \* window.parent === window in the agent window

srvVars == <<localMedications, localAllergies, initialized, now>>
agentVars == <<queue, chatHistory, requestCounter, processingMessage,
               currentProvider, llmCall>>
botVars == <<widget, localStorageKey, apiKey, messages, botPc, botCall, requests>>
ozVars == <<ozApiKey, useSimulationMode, toolsContext, ozEnvLoading, ozPc,
            ozCall, ozResult>>
iframeVars == <<isOpen, containerDisplay, containerWidth, containerHeight>>
statusVars == <<connectionStatus, reconnecting>>
proxyVars == <<proxyPc, proxyBody, proxyContacted, proxyUpstream, proxySent>>
dataVars == <<patientData, medicalData>>
frameVars == <<parentIsSelf>>
laterVars == <<proxyVars, dataVars, frameVars>>
pageVars == <<iframeVars, statusVars, laterVars>>
widgetVars == <<botVars, ozVars, pageVars>>
vars == <<localMedications, localAllergies, initialized, now, outbox, event,
          queue, chatHistory, requestCounter, processingMessage,
          currentProvider, llmCall, widget, localStorageKey, apiKey, messages,
          botPc, botCall, requests, ozApiKey, useSimulationMode, toolsContext,
          ozEnvLoading, ozPc, ozCall, ozResult, isOpen, containerDisplay,
          containerWidth, containerHeight, connectionStatus, reconnecting,
          proxyPc, proxyBody, proxyContacted, proxyUpstream, proxySent,
          patientData, medicalData, parentIsSelf>>

(***************************************************************************)
(* Strings                                                                 *)
(***************************************************************************)
UpperChars == <<"A","B","C","D","E","F","G","H","I","J","K","L","M",
                "N","O","P","Q","R","S","T","U","V","W","X","Y","Z">>
LowerChars == <<"a","b","c","d","e","f","g","h","i","j","k","l","m",
                "n","o","p","q","r","s","t","u","v","w","x","y","z">>

OtherChars == {"0","1","2","3","4","5","6","7","8","9","-"," ","/"}
Chars == {UpperChars[i] : i \in DOMAIN UpperChars}
         \cup {LowerChars[i] : i \in DOMAIN LowerChars} \cup OtherChars
\* the lower-case form of each character
LowerOf ==
    [c \in Chars |->
        IF \E i \in DOMAIN UpperChars : UpperChars[i] = c
        THEN LowerChars[CHOOSE i \in DOMAIN UpperChars : UpperChars[i] = c]
        ELSE c]
ToLowerChar(c) == LowerOf[c]

\* String.prototype.toLowerCase
toLowerCase(s) ==
    IF Len(s) = 0 THEN <<>> ELSE [i \in 1..Len(s) |-> ToLowerChar(s[i])]

\* String.prototype.includes: t occurs in s as a contiguous substring
includes(s, t) ==
    \E i \in 0..(Len(s) - Len(t)) : SubSeq(s, i + 1, i + Len(t)) = t

\* String.prototype.startsWith
startsWith(s, t) ==
    Len(t) <= Len(s) /\ SubSeq(s, 1, Len(t)) = t

\* the texts the model uses
sLisinopril == <<"L","i","s","i","n","o","p","r","i","l">>
sMetformin  == <<"M","e","t","f","o","r","m","i","n">>
sPenicillin == <<"P","e","n","i","c","i","l","l","i","n">>
sSulfa      == <<"S","u","l","f","a">>
sAspirin    == <<"A","s","p","i","r","i","n">>
sASPIRIN    == <<"A","S","P","I","R","I","N">>
sSulfadiazine == <<"s","u","l","f","a","d","i","a","z","i","n","e">>
sPen        == <<"p","e","n">>
sLISINOPRIL == <<"L","I","S","I","N","O","P","R","I","L">>
sAsp        == <<"A","s","p">>
sMed1       == <<"m","e","d","-","1">>
sMed2       == <<"m","e","d","-","2">>
sEmpty      == <<>>
s10mg       == <<"1","0","m","g">>
sDaily      == <<"d","a","i","l","y">>

(***************************************************************************)
(* JSON values that travel as tool parameters                              *)
(***************************************************************************)
JNull   == [t |-> "null"]
JStr(s) == [t |-> "string", s |-> s]
JObj(f) == [t |-> "object", f |-> f]

IsObj(v) == v.t = "object"
IsStr(v) == v.t = "string"
Has(v, k) == IsObj(v) /\ k \in DOMAIN v.f
\* JavaScript truthiness of a property read: missing and "" are falsy
Truthy(v, k) == Has(v, k) /\ Len(v.f[k]) > 0

(***************************************************************************)
(* Bounds                                                                  *)
(***************************************************************************)
StartClock == 3     \* Date.now() when the page loads (after the demo ids 1, 2)
MaxClock == 4       \* Date.now() never exceeds this in the model
MaxMeds == 3        \* no addMedication is sent to a list of this length

(***************************************************************************)
(* MedicalMCPServer                                                        *)
(***************************************************************************)
Undefined == [t |-> "undefined"]
NullId == 0         \* requestId = null (a direct executeTool call)

Digits == <<"0","1","2","3","4","5","6","7","8","9">>
RECURSIVE NumStr(_)
NumStr(n) ==
    IF n < 10 THEN <<Digits[n + 1]>>
    ELSE NumStr(n \div 10) \o <<Digits[(n % 10) + 1]>>

MinOf(S) == CHOOSE x \in S : \A y \in S : x <= y
\* Array.prototype.findIndex over the medication list; 0 stands for -1
FindMedIndex(meds, medId) ==
    LET hits == {i \in DOMAIN meds :
                    \/ meds[i].id = medId
                    \/ toLowerCase(meds[i].name) = toLowerCase(medId)}
    IN  IF hits = {} THEN 0 ELSE MinOf(hits)
RemoveAt(seq, i) == SubSeq(seq, 1, i - 1) \o SubSeq(seq, i + 1, Len(seq))

Fail(err) == [success |-> FALSE, data |-> Undefined, message |-> "undefined", error |-> err]
Ok(data, msg) == [success |-> TRUE, data |-> data, message |-> msg, error |-> "undefined"]

\* medicationSchema.parse: an object whose name, dose and frequency are strings
MedicationSchemaOk(args) ==
    Has(args, "name") /\ Has(args, "dose") /\ Has(args, "frequency")
\* editMedicationSchema.parse
EditSchemaOk(args) ==
    Has(args, "medId") /\ Has(args, "updates") /\ IsObj(args.f.updates)
\* allergySchema.parse; severity is one of the enum's values when present
SeverityEnum == {"Mild", "Moderate", "Severe"}
AllergySchemaOk(args) ==
    /\ Has(args, "allergen")
    /\ Has(args, "severity") => args.f.severity \in SeverityEnum

\* AllergyMatch without the second disjunct of the find() callback
AllergyMatchOneWay(alls, name) ==
    LET hits == {i \in DOMAIN alls :
                    includes(toLowerCase(name), toLowerCase(alls[i].allergen))}
    IN  IF hits = {} THEN 0 ELSE MinOf(hits)

\* the allergy executeAddMedication's find() returns, 0 when there is none
AllergyMatch(alls, name) ==
    LET hits == {i \in DOMAIN alls :
                    \/ includes(toLowerCase(name), toLowerCase(alls[i].allergen))
                    \/ includes(toLowerCase(alls[i].allergen), toLowerCase(name))}
    IN  IF hits = {} THEN 0 ELSE MinOf(hits)

\* ExistingMed comparing the names as written
ExistingMedCaseSensitive(meds, name) ==
    \E i \in DOMAIN meds : meds[i].name = name

ExistingMed(meds, name) ==
    \E i \in DOMAIN meds : toLowerCase(meds[i].name) = toLowerCase(name)

\* Each execute* operator gives the lists after the call and the result it
\* hands to sendToolResponse.
executeAddMedication(meds, alls, args, t) ==
    IF ~MedicationSchemaOk(args)
    THEN [meds |-> meds, alls |-> alls, result |-> Fail("ZodError")]
    ELSE IF ~(Truthy(args, "name") /\ Truthy(args, "dose") /\ Truthy(args, "frequency"))
    THEN [meds |-> meds, alls |-> alls,
          result |-> Fail("Missing required fields: name, dose, and frequency are required")]
    ELSE IF AllergyMatch(alls, args.f.name) # 0
    THEN [meds |-> meds, alls |-> alls, result |-> Fail("Patient is allergic to")]
    ELSE IF ExistingMed(meds, args.f.name)
    THEN [meds |-> meds, alls |-> alls,
          result |-> Fail("is already in the patient's medication list")]
    ELSE LET newMed == [id |-> <<"m","e","d","-">> \o NumStr(t),
                        name |-> args.f.name,
                        dose |-> args.f.dose,
                        frequency |-> args.f.frequency,
                        indication |-> IF Truthy(args, "indication")
                                       THEN args.f.indication
                                       ELSE <<"N","o","t"," ","s","p","e","c","i","f","i","e","d">>]
         IN  [meds |-> Append(meds, newMed), alls |-> alls,
              result |-> Ok(newMed, "Successfully added")]

\* { ...med, ...updates }: the fields present in updates replace the med's
MergeUpdates(med, upd) ==
    [k \in DOMAIN med |->
        IF k \in DOMAIN upd.f /\ k \in {"name", "dose", "frequency", "indication"}
        THEN upd.f[k] ELSE med[k]]

executeEditMedication(meds, alls, args) ==
    IF ~EditSchemaOk(args)
    THEN [meds |-> meds, alls |-> alls, result |-> Fail("ZodError")]
    ELSE LET medIndex == FindMedIndex(meds, args.f.medId)
         IN  IF medIndex = 0
             THEN [meds |-> meds, alls |-> alls, result |-> Fail("not found")]
             ELSE LET updatedMed == MergeUpdates(meds[medIndex], args.f.updates)
                  IN  [meds |-> [meds EXCEPT ![medIndex] = updatedMed], alls |-> alls,
                       result |-> Ok(updatedMed, "Successfully updated")]

\* getLocalContext
getLocalContext(meds, alls) ==
    [patientInfo |-> [patientId |-> "PAT-12345", name |-> "John Doe", age |-> 65],
     medications |-> meds,
     allergies |-> alls,
     totalMedications |-> Len(meds),
     totalAllergies |-> Len(alls)]

executeGetContext(meds, alls) ==
    [meds |-> meds, alls |-> alls,
     result |-> Ok(getLocalContext(meds, alls), "Context retrieved successfully")]

\* const medId = args.medId || args: a string argument is its own medId; a
\* null argument throws on the property read; an object without a truthy
\* medId is compared as an object, which throws in toLowerCase() as soon as
\* the list has an element to compare with.
executeDiscontinueMedication(meds, alls, args) ==
    IF args = JNull
    THEN [meds |-> meds, alls |-> alls, result |-> Fail("TypeError")]
    ELSE IF ~IsStr(args) /\ ~Truthy(args, "medId")
    THEN [meds |-> meds, alls |-> alls,
          result |-> IF Len(meds) > 0 THEN Fail("TypeError") ELSE Fail("not found")]
    ELSE LET medId == IF IsStr(args) THEN args.s ELSE args.f.medId
             medIndex == FindMedIndex(meds, medId)
         IN  IF medIndex = 0
             THEN [meds |-> meds, alls |-> alls, result |-> Fail("not found")]
             ELSE [meds |-> RemoveAt(meds, medIndex), alls |-> alls,
                   result |-> Ok(meds[medIndex], "Successfully discontinued")]

\* a variant that records the allergy before looking for a duplicate
executeAddAllergyRecordFirst(meds, alls, args, t) ==
    IF ~AllergySchemaOk(args)
    THEN [meds |-> meds, alls |-> alls, result |-> Fail("ZodError")]
    ELSE LET newAllergy ==
                [id |-> <<"a","l","l","e","r","g","y","-">> \o NumStr(t),
                 allergen |-> args.f.allergen,
                 reaction |-> IF Truthy(args, "reaction") THEN args.f.reaction
                              ELSE <<"N","o","t"," ","s","p","e","c","i","f","i","e","d">>,
                 severity |-> IF Has(args, "severity") THEN args.f.severity
                              ELSE "Moderate"]
         IN  IF \E i \in DOMAIN alls :
                    toLowerCase(alls[i].allergen) = toLowerCase(args.f.allergen)
             THEN [meds |-> meds, alls |-> Append(alls, newAllergy),
                   result |-> Fail("already exists")]
             ELSE [meds |-> meds, alls |-> Append(alls, newAllergy),
                   result |-> Ok(newAllergy, "Successfully added allergy")]

executeAddAllergy(meds, alls, args, t) ==
    IF ~AllergySchemaOk(args)
    THEN [meds |-> meds, alls |-> alls, result |-> Fail("ZodError")]
    ELSE IF \E i \in DOMAIN alls :
                toLowerCase(alls[i].allergen) = toLowerCase(args.f.allergen)
    THEN [meds |-> meds, alls |-> alls, result |-> Fail("already exists")]
    ELSE LET newAllergy ==
                [id |-> <<"a","l","l","e","r","g","y","-">> \o NumStr(t),
                 allergen |-> args.f.allergen,
                 reaction |-> IF Truthy(args, "reaction") THEN args.f.reaction
                              ELSE <<"N","o","t"," ","s","p","e","c","i","f","i","e","d">>,
                 severity |-> IF Has(args, "severity") THEN args.f.severity
                              ELSE "Moderate"]
         IN  [meds |-> meds, alls |-> Append(alls, newAllergy),
              result |-> Ok(newAllergy, "Successfully added allergy")]

\* executeTool's switch
executeTool(meds, alls, toolName, parameters, t) ==
    CASE toolName = "addMedication" -> executeAddMedication(meds, alls, parameters, t)
      [] toolName = "editMedication" -> executeEditMedication(meds, alls, parameters)
      [] toolName = "getContext" -> executeGetContext(meds, alls)
      [] toolName = "discontinueMedication" ->
            executeDiscontinueMedication(meds, alls, parameters)
      [] toolName = "addAllergy" -> executeAddAllergy(meds, alls, parameters, t)
      [] OTHER -> [meds |-> meds, alls |-> alls, result |-> Fail("Unknown tool")]

\* sendToolResponse that answers only the successful executions
sendToolResponseSuccessOnly(toolName, result, requestId) ==
    << [to |-> "parent",
        msg |-> [type |-> "mcp-log", source |-> "mcp-server",
                 message |-> IF result.success THEN "Tool executed: SUCCESS"
                             ELSE "Tool executed: FAILED",
                 toolName |-> toolName]] >>
    \o IF result.success
       THEN << [to |-> "window",
                msg |-> [type |-> "mcp-tool-response", requestId |-> requestId,
                         toolName |-> toolName, success |-> result.success,
                         result |-> result.data, message |-> result.message,
                         error |-> result.error]] >>
       ELSE <<>>

\* sendToolResponse: a log line to window.parent, then the response to window
sendToolResponse(toolName, result, requestId) ==
    << [to |-> "parent",
        msg |-> [type |-> "mcp-log", source |-> "mcp-server",
                 message |-> IF result.success THEN "Tool executed: SUCCESS"
                             ELSE "Tool executed: FAILED",
                 toolName |-> toolName]],
       [to |-> "window",
        msg |-> [type |-> "mcp-tool-response", requestId |-> requestId,
                 toolName |-> toolName, success |-> result.success,
                 result |-> result.data, message |-> result.message,
                 error |-> result.error]] >>

\* handleToolExecution: a log line to window.parent, then executeTool
handleToolExecution(meds, alls, toolName, parameters, requestId, t) ==
    LET out == executeTool(meds, alls, toolName, parameters, t)
    IN  [meds |-> out.meds, alls |-> out.alls,
         posted |-> << [to |-> "parent",
                        msg |-> [type |-> "mcp-log", source |-> "mcp-server",
                                 message |-> "Received tool execution request",
                                 toolName |-> toolName]] >>
                    \o sendToolResponse(toolName, out.result, requestId)]

\* sendAvailableTools
ToolNames == {"addMedication", "editMedication", "getContext",
              "discontinueMedication", "addAllergy"}
sendAvailableTools ==
    << [to |-> "window", msg |-> [type |-> "mcp-tools-available", tools |-> ToolNames]] >>

\* a listener that passes a log line on under the type it came with
ServerListenerEchoLog(meds, alls, m, t) ==
    CASE m.type \in {"mcp-tool-response", "mcp-tools-available"} ->
            [meds |-> meds, alls |-> alls, posted |-> <<>>]
      [] m.type = "mcp-get-tools" ->
            [meds |-> meds, alls |-> alls, posted |-> sendAvailableTools]
      [] m.type = "mcp-log" ->
            [meds |-> meds, alls |-> alls,
             posted |-> << [to |-> "parent",
                            msg |-> [type |-> "mcp-log", source |-> "mcp-server",
                                     message |-> m.message]] >>]
      [] m.type = "mcp-execute-tool" ->
            handleToolExecution(meds, alls, m.toolName, m.parameters, m.requestId, t)
      [] m.type = "request-tools-context" ->
            [meds |-> meds, alls |-> alls,
             posted |-> << [to |-> "source",
                            msg |-> [type |-> "tools-context", tools |-> ToolNames]] >>]
      [] OTHER -> [meds |-> meds, alls |-> alls, posted |-> <<>>]

\* The listener setupEventListeners registers: the lists after the run and
\* the messages it posts, for event.data = m read at time t.
ServerListener(meds, alls, m, t) ==
    CASE m.type \in {"mcp-tool-response", "mcp-tools-available"} ->
            [meds |-> meds, alls |-> alls, posted |-> <<>>]
      [] m.type = "mcp-get-tools" ->
            [meds |-> meds, alls |-> alls, posted |-> sendAvailableTools]
      [] m.type = "mcp-log" ->
            [meds |-> meds, alls |-> alls,
             posted |-> << [to |-> "parent",
                            msg |-> [type |-> "mcp-log-reponse", source |-> "mcp-server",
                                     message |-> m.message]] >>]
      [] m.type = "mcp-execute-tool" ->
            handleToolExecution(meds, alls, m.toolName, m.parameters, m.requestId, t)
      [] m.type = "request-tools-context" ->
            [meds |-> meds, alls |-> alls,
             posted |-> << [to |-> "source",
                            msg |-> [type |-> "tools-context", tools |-> ToolNames]] >>]
      [] OTHER -> [meds |-> meds, alls |-> alls, posted |-> <<>>]

\* initialize(): the demo record
DemoMedications ==
    << [id |-> sMed1, name |-> sLisinopril, dose |-> s10mg,
        frequency |-> <<"o","n","c","e"," ","d","a","i","l","y">>,
        indication |-> <<"H","y","p","e","r","t","e","n","s","i","o","n">>],
       [id |-> sMed2, name |-> sMetformin, dose |-> <<"5","0","0","m","g">>,
        frequency |-> <<"t","w","i","c","e"," ","d","a","i","l","y">>,
        indication |-> <<"T","y","p","e"," ","2"," ","D","i","a","b","e","t","e","s">>] >>
DemoAllergies ==
    << [id |-> <<"a","l","l","e","r","g","y","-","1">>, allergen |-> sPenicillin,
        reaction |-> <<"R","a","s","h">>, severity |-> "Moderate"],
       [id |-> <<"a","l","l","e","r","g","y","-","2">>, allergen |-> sSulfa,
        reaction |-> <<"H","i","v","e","s">>, severity |-> "Mild"] >>

NoEvent == [type |-> "none"]

\* new MedicalMCPServer(): empty lists, listener registered
ServerConstructed ==
    /\ localMedications = <<>>
    /\ localAllergies = <<>>
    /\ initialized = FALSE
    /\ now = StartClock
    /\ outbox = <<>>
    /\ event = NoEvent

\* server.initialize(), run by the DOMContentLoaded handler right after the
\* constructor and in the same task, so no message is delivered before it;
\* its setTimeout callback sends the tools list.
ServerInitialize ==
    /\ ~initialized
    /\ localMedications' = DemoMedications
    /\ localAllergies' = DemoAllergies
    /\ initialized' = TRUE
    /\ outbox' = sendAvailableTools
    /\ event' = [type |-> "DOMContentLoaded"]
    /\ UNCHANGED now
    /\ UNCHANGED agentVars
    /\ UNCHANGED widgetVars

(***************************************************************************)
(* The server alone, receiving whatever a window posts to it               *)
(***************************************************************************)
MedArgs(name, dose) == JObj([name |-> name, dose |-> dose, frequency |-> sDaily])
ServerToolInputs ==
    {[toolName |-> "addMedication", parameters |-> MedArgs(n, s10mg)] :
        n \in {sAspirin, sASPIRIN, sSulfadiazine, sPen, sLISINOPRIL, sEmpty}}
    \cup {[toolName |-> "addMedication", parameters |-> JObj([name |-> sAspirin])],
          [toolName |-> "addMedication", parameters |-> JNull]}
    \cup {[toolName |-> "editMedication",
           parameters |-> JObj([medId |-> sMed1, updates |-> JObj([name |-> sMetformin])])],
          [toolName |-> "editMedication",
           parameters |-> JObj([medId |-> sAspirin, updates |-> JObj([name |-> sSulfa])])],
          [toolName |-> "editMedication",
           parameters |-> JObj([medId |-> sMed2, updates |-> JObj([dose |-> s10mg])])],
          [toolName |-> "editMedication",
           parameters |-> JObj([medId |-> sPen, updates |-> JObj([name |-> sAsp])])],
          [toolName |-> "editMedication", parameters |-> JObj([medId |-> sMed1])]}
    \cup {[toolName |-> "getContext", parameters |-> JObj(<<>>)]}
    \cup {[toolName |-> "discontinueMedication", parameters |-> p] :
            p \in {JObj([medId |-> sAspirin]), JObj([medId |-> sLISINOPRIL]),
                   JStr(sMetformin), JNull, JObj(<<>>)}}
    \cup {[toolName |-> "addAllergy", parameters |-> p] :
            p \in {JObj([allergen |-> sAsp]), JObj([allergen |-> sPenicillin]),
                   JObj([allergen |-> sAsp, severity |-> "Deadly"]), JNull}}
    \cup {[toolName |-> "deleteAll", parameters |-> JObj(<<>>)]}

ServerInbox ==
    {[type |-> "mcp-execute-tool", requestId |-> 1,
      toolName |-> i.toolName, parameters |-> i.parameters] : i \in ServerToolInputs}
    \cup {[type |-> "mcp-execute-tool", requestId |-> NullId,
           toolName |-> "getContext", parameters |-> JObj(<<>>)],
          [type |-> "mcp-get-tools"],
          [type |-> "mcp-log", source |-> "mcp-client", message |-> "Tool Call"],
          [type |-> "request-tools-context"],
          [type |-> "mcp-tools-available", tools |-> ToolNames],
          [type |-> "show"]}

\* One run of the server's message listener on a message of inbox,
\* delivered once the previous task has ended
ServerDeliver(inbox) ==
    /\ initialized
    /\ event = NoEvent /\ outbox = <<>>
    /\ \E m \in inbox :
        /\ (m.type = "mcp-execute-tool" /\ m.toolName = "addMedication")
                => Len(localMedications) < MaxMeds
        /\ LET first == ServerListener(localMedications, localAllergies, m, now)
               stamps == Len(first.meds) > Len(localMedications)
                         \/ Len(first.alls) > Len(localAllergies)
           IN  \E t \in IF stamps THEN now..MaxClock ELSE {now} :
                 LET out == ServerListener(localMedications, localAllergies, m, t)
                 IN  /\ localMedications' = out.meds
                     /\ localAllergies' = out.alls
                     /\ outbox' = out.posted
                     /\ event' = m
                     /\ now' = t
    /\ UNCHANGED initialized
    /\ UNCHANGED agentVars
    /\ UNCHANGED widgetVars

ServerReceive == ServerDeliver(ServerInbox)

\* The task ends: the posted messages leave for their target windows
ServerTaskEnd ==
    /\ event # NoEvent
    /\ event' = NoEvent
    /\ outbox' = <<>>
    /\ UNCHANGED srvVars
    /\ UNCHANGED agentVars
    /\ UNCHANGED widgetVars

\* new MCPClient(), new LLMManager() with nothing saved in localStorage
NoCall == [provider |-> "none", index |-> 0]
ClientConstructed ==
    /\ queue = <<>>
    /\ chatHistory = <<>>
    /\ requestCounter = 0
    /\ processingMessage = FALSE
    /\ currentProvider = "none"
    /\ llmCall = NoCall

\* A stored key: localStorage.getItem returns null or a string
KeyNull == [isNull |-> TRUE, s |-> <<>>]
KeyOf(s) == [isNull |-> FALSE, s |-> s]
\* JavaScript truthiness of a key: null and "" are falsy
KeyPresent(k) == ~k.isNull /\ Len(k.s) > 0

NoBotCall == [message |-> <<>>, apiKey |-> KeyNull]
\* new SimpleChatbot() / new OzwelAIChatbot() on a page that stored key k
\* initialize(): the connection status the constructor leaves
initialize(w, k) ==
    IF w = "OzwelAIChatbot" /\ KeyPresent(k) /\ startsWith(k.s, <<"s", "k", "-">>)
    THEN "Connected (Ozwel AI)"
    ELSE "Connected"

BotConstructed(w, k) ==
    /\ connectionStatus = initialize(w, k)
    /\ reconnecting = 0
    /\ widget = w
    /\ localStorageKey = k
    /\ apiKey = k
    /\ messages = <<>>
    /\ botPc = "idle"
    /\ botCall = NoBotCall
    /\ requests = <<>>

NoResult == [kind |-> "none"]
NoOzCall == [messages |-> <<>>, apiKey |-> KeyNull]
\* new OzwellIntegration(): no key, simulation mode forced on, no tools
\* context, and the constructor has started loadEnvironmentVariables
OzwellConstructed ==
    /\ ozApiKey = KeyNull
    /\ useSimulationMode = TRUE
    /\ toolsContext = Undefined
    /\ ozEnvLoading = TRUE
    /\ ozPc = "idle"
    /\ ozCall = NoOzCall
    /\ ozResult = NoResult

\* app.listen: the proxy has no request in hand
MaxProxyRequests == 2   \* the requests the proxy receives, numbered from 1
ProxyRequestIds == 1..MaxProxyRequests
ProxyListening ==
    /\ proxyPc = [r \in ProxyRequestIds |-> "not sent"]
    /\ proxyBody = [r \in ProxyRequestIds |-> Undefined]
    /\ proxyContacted = [r \in ProxyRequestIds |-> FALSE]
    /\ proxyUpstream = [r \in ProxyRequestIds |-> Undefined]
    /\ proxySent = [r \in ProxyRequestIds |-> <<>>]

\* new OzwellIframe(options) with the default options: the container is
\* created hidden
IframeConstructed ==
    /\ isOpen = FALSE
    /\ containerDisplay = "none"
    /\ containerWidth = "400px"
    /\ containerHeight = "600px"

sMed001 == <<"m","e","d","-","0","0","1">>
sMed002 == <<"m","e","d","-","0","0","2">>
\* a medication of patientData, as far as the manager's methods read it
PatientMed(id, name, status) == [id |-> id, name |-> name, status |-> status]
\* the record the constructor of MedicalDataManager writes
DemoPatientData ==
    [medications |-> << PatientMed(sMed001, sLisinopril, "active"),
                        PatientMed(sMed002, sMetformin, "active") >>,
     allergies |-> << [allergen |-> sPenicillin] >>]
\* the localStorage entry: absent, or the JSON of a record
NotStored == [present |-> FALSE, data |-> DemoPatientData]
Stored(data) == [present |-> TRUE, data |-> data]
\* new MedicalDataManager() in a browser that has stored nothing yet
DataManagerConstructed ==
    /\ patientData = DemoPatientData
    /\ medicalData = NotStored

\* what the page holds besides the agent and the chat widgets
\* the agent page is embedded in the page of another window
Framed == parentIsSelf = FALSE
PageConstructed ==
    IframeConstructed /\ ProxyListening /\ DataManagerConstructed /\ Framed

\* the widgets of a page that runs the agent only
WidgetsConstructed ==
    BotConstructed("SimpleChatbot", KeyNull) /\ OzwellConstructed /\ PageConstructed

ServerInit == ServerConstructed /\ ClientConstructed /\ WidgetsConstructed
ServerNext == ServerInitialize \/ ServerReceive \/ ServerTaskEnd
ServerSpec == ServerInit /\ [][ServerNext]_vars

\* The same server when no window ever sends editMedication
NoEditInbox ==
    {m \in ServerInbox : m.type = "mcp-execute-tool" => m.toolName # "editMedication"}
ServerReceiveNoEdit == ServerDeliver(NoEditInbox)
NoEditNext == ServerInitialize \/ ServerReceiveNoEdit \/ ServerTaskEnd
NoEditSpec == ServerInit /\ [][NoEditNext]_vars

(***************************************************************************)
(* Properties of the server                                                *)
(***************************************************************************)
IsExec(m, tool) == m.type = "mcp-execute-tool" /\ m.toolName = tool
\* the 'mcp-tool-response' messages among the posted ones
Responses(box) == SelectSeq(box, LAMBDA e : e.msg.type = "mcp-tool-response")
Rejected(box) ==
    /\ Len(Responses(box)) = 1
    /\ Responses(box)[1].msg.success = FALSE
RejectedWith(box, err) == Rejected(box) /\ Responses(box)[1].msg.error = err
Accepted(box) ==
    /\ Len(Responses(box)) = 1
    /\ Responses(box)[1].msg.success = TRUE
\* name matches a recorded allergy, as executeAddMedication compares them
MatchesAllergy(alls, name) ==
    \E i \in DOMAIN alls :
        \/ includes(toLowerCase(name), toLowerCase(alls[i].allergen))
        \/ includes(toLowerCase(alls[i].allergen), toLowerCase(name))

\* C2: every 'mcp-execute-tool' message the server's listener receives makes
\* it post exactly one 'mcp-tool-response' with the message's requestId and
\* toolName; success comes without an error text, failure with one, and an
\* unknown tool name fails with "Unknown tool".
C2_OneResponsePerRequest ==
    event.type = "mcp-execute-tool" =>
        LET rs == Responses(outbox)
        IN  /\ Len(rs) = 1
            /\ rs[1].to = "window"
            /\ rs[1].msg.requestId = event.requestId
            /\ rs[1].msg.toolName = event.toolName
            /\ rs[1].msg.success => rs[1].msg.error = "undefined"
            /\ ~rs[1].msg.success => rs[1].msg.error # "undefined"
            /\ event.toolName \notin ToolNames =>
                    /\ ~rs[1].msg.success
                    /\ rs[1].msg.error = "Unknown tool"
C2_Witness ==
    /\ event.type = "mcp-execute-tool"
    /\ event.toolName = "deleteAll"
    /\ RejectedWith(outbox, "Unknown tool")

\* C3: an addMedication whose name contains, or is contained in, the
\* allergen of a recorded allergy (case-insensitively) is answered with
\* success false and leaves the medication list as it was; and a recorded
\* allergy stays recorded, so this holds for every later addMedication.
C3_AllergyBlocksAddMedication ==
    /\ [][(/\ IsExec(event', "addMedication")
           /\ Has(event'.parameters, "name")
           /\ MatchesAllergy(localAllergies, event'.parameters.f.name))
          => (/\ Rejected(outbox')
              /\ localMedications' = localMedications)]_vars
    /\ [][\A i \in DOMAIN localAllergies :
            /\ i \in DOMAIN localAllergies'
            /\ localAllergies'[i] = localAllergies[i]]_vars
C3_Witness ==
    /\ IsExec(event, "addMedication")
    /\ event.parameters = MedArgs(sAspirin, s10mg)
    /\ \E i \in DOMAIN localAllergies :
            localAllergies[i].allergen = sAsp /\ i > Len(DemoAllergies)
    /\ RejectedWith(outbox, "Patient is allergic to")

NoDupNames ==
    \A i, j \in DOMAIN localMedications :
        toLowerCase(localMedications[i].name) = toLowerCase(localMedications[j].name)
            => i = j

\* C4 as stated: a well-formed addMedication of a name already in the list
\* is rejected with the 'already in the patient's medication list' error.
C4_Original ==
    [][(/\ IsExec(event', "addMedication")
        /\ MedicationSchemaOk(event'.parameters)
        /\ Truthy(event'.parameters, "name")
        /\ Truthy(event'.parameters, "dose")
        /\ Truthy(event'.parameters, "frequency")
        /\ ExistingMed(localMedications, event'.parameters.f.name))
       => RejectedWith(outbox', "is already in the patient's medication list")]_vars

\* C4 as amended: an addMedication of a name already in the list
\* (case-insensitively) is rejected and leaves the list as it was; the error
\* is 'already in the patient's medication list' when the arguments pass
\* validation and the name matches no recorded allergy; when only
\* addMedication and discontinueMedication change the list no two
\* medications share a name case-insensitively; and a valid addMedication
\* of a name that is not in the list and matches no allergy, such as a
\* discontinued one, succeeds and appends it.
C4_NoDuplicateNames ==
    /\ [][(/\ IsExec(event', "addMedication")
           /\ Has(event'.parameters, "name")
           /\ ExistingMed(localMedications, event'.parameters.f.name))
          => (/\ Rejected(outbox')
              /\ localMedications' = localMedications
              /\ (/\ MedicationSchemaOk(event'.parameters)
                  /\ Truthy(event'.parameters, "name")
                  /\ Truthy(event'.parameters, "dose")
                  /\ Truthy(event'.parameters, "frequency")
                  /\ ~MatchesAllergy(localAllergies, event'.parameters.f.name))
                 => RejectedWith(outbox', "is already in the patient's medication list"))]_vars
    /\ []NoDupNames
    /\ [][(/\ IsExec(event', "addMedication")
           /\ MedicationSchemaOk(event'.parameters)
           /\ Truthy(event'.parameters, "name")
           /\ Truthy(event'.parameters, "dose")
           /\ Truthy(event'.parameters, "frequency")
           /\ ~MatchesAllergy(localAllergies, event'.parameters.f.name)
           /\ ~ExistingMed(localMedications, event'.parameters.f.name))
          => (/\ Accepted(outbox')
              /\ Len(localMedications') = Len(localMedications) + 1
              /\ localMedications'[Len(localMedications')].name
                    = event'.parameters.f.name)]_vars
\* Lisinopril was discontinued and is being added again, under another id
C4_Witness ==
    /\ IsExec(event, "addMedication")
    /\ event.parameters = MedArgs(sLISINOPRIL, s10mg)
    /\ Accepted(outbox)
    /\ \E i \in DOMAIN localMedications :
            /\ localMedications[i].name = sLISINOPRIL
            /\ localMedications[i].id # sMed1

\* C5 as stated: an editMedication whose new name is the name of another
\* medication in the list, or matches a recorded allergy, is rejected and
\* leaves the medication list unchanged.
C5_EditConflictRejected ==
    [][(/\ IsExec(event', "editMedication")
        /\ EditSchemaOk(event'.parameters)
        /\ Has(event'.parameters.f.updates, "name")
        /\ LET medIndex == FindMedIndex(localMedications, event'.parameters.f.medId)
               newName == event'.parameters.f.updates.f.name
           IN  /\ medIndex # 0
               /\ \/ \E j \in DOMAIN localMedications :
                        /\ j # medIndex
                        /\ toLowerCase(localMedications[j].name) = toLowerCase(newName)
                  \/ MatchesAllergy(localAllergies, newName))
       => (/\ Rejected(outbox')
           /\ localMedications' = localMedications)]_vars

\* C24: a tool execution the server answers with success false (validation
\* error, allergy conflict, duplicate, medication not found, unknown tool)
\* leaves localMedications and localAllergies as they were, and a getContext
\* execution never changes them, whatever it answers.
C24_FailureChangesNothing ==
    [][(/\ event'.type = "mcp-execute-tool"
        /\ outbox' # <<>>
        /\ Rejected(outbox') \/ event'.toolName = "getContext")
       => UNCHANGED <<localMedications, localAllergies>>]_vars
\* a duplicate allergy was refused while the lists hold more than the demo data
C24_Witness ==
    /\ IsExec(event, "addAllergy")
    /\ RejectedWith(outbox, "already exists")
    /\ Len(localMedications) + Len(localAllergies) >
            Len(DemoMedications) + Len(DemoAllergies)
\* a getContext was answered
C24_GetContextWitness ==
    /\ IsExec(event, "getContext")
    /\ Accepted(outbox)

(***************************************************************************)
(* LLMManager: from the API's answer to the tool calls                     *)
(***************************************************************************)
MaxRequests == 2    \* no message is sent once requestCounter has this value
MaxChat == 2        \* no message is sent once chatHistory has this length

Throws == [t |-> "throws"]
MaxOf(S) == CHOOSE x \in S : \A y \in S : y <= x

\* A JSON text is [json |-> TRUE, value |-> v] when it is the JSON of v and
\* [json |-> FALSE, raw |-> chars] when it is no JSON at all.
JsonText(v) == [json |-> TRUE, value |-> v, raw |-> <<>>]
NotJson(chars) == [json |-> FALSE, value |-> JNull, raw |-> chars]
JSONparse(text) == IF text.json THEN text.value ELSE Throws

NullResponse == [kind |-> "null"]
StringResponse(lines) == [kind |-> "string", lines |-> lines]
\* choices[0].message of a chat completion; tool_calls is <<>> when absent
MessageObject(content, calls) ==
    [kind |-> "object", content |-> content, tool_calls |-> calls]
FunctionCall(name, arguments) ==
    [type |-> "function", function |-> [name |-> name, arguments |-> arguments]]

\* handleNonStreamingResponse once the body has arrived: what it returns for
\* the body data when this.currentProvider is cur
handleNonStreamingResponse(data, cur) ==
    IF cur = "openai" /\ data.shape = "chat" THEN data.message
    ELSE IF data.shape = "chat" THEN data.message.content
    ELSE IF data.shape = "completion" THEN StringResponse(data.text)
    ELSE Throws

\* What a parser hands back: the toolCalls array, or a TypeError
Parsed(calls) == [threw |-> FALSE, calls |-> calls]
ParserThrew == [threw |-> TRUE, calls |-> <<>>]

\* parseOpenAIToolCalls; typeof null is 'object', so a null response throws
\* on the read of tool_calls
parseOpenAIToolCalls(response) ==
    IF response.kind = "null" THEN ParserThrew
    ELSE IF response.kind # "object" THEN Parsed(<<>>)
    ELSE LET good == SelectSeq(response.tool_calls,
                        LAMBDA tc : /\ tc.type = "function"
                                    /\ JSONparse(tc.function.arguments) # Throws)
         IN  IF Len(good) = 0 THEN Parsed(<<>>)
             ELSE Parsed([i \in 1..Len(good) |->
                            [name |-> good[i].function.name,
                             parameters |-> JSONparse(good[i].function.arguments),
                             provider |-> "openai"]])

\* paramsStr.replace(/"/g, '')
RemoveQuotes(chars) == SelectSeq(chars, LAMBDA c : c # "\"")
\* index of the last line that starts with head, 0 when there is none
LastLine(lines, head) ==
    LET hits == {i \in DOMAIN lines : lines[i].head = head}
    IN  IF hits = {} THEN 0 ELSE MaxOf(hits)

\* parseOzwellToolCalls that keeps the PARAMS text as it is written
parseOzwellToolCallsUndecoded(response) ==
    IF response.kind # "string" THEN Parsed(<<>>)
    ELSE LET tl == LastLine(response.lines, "TOOL_CALL:")
             pl == LastLine(response.lines, "PARAMS:")
             params == IF pl = 0 THEN JNull
                       ELSE JStr(RemoveQuotes(response.lines[pl].rest.raw))
         IN  IF tl = 0 \/ response.lines[tl].rest = "" THEN Parsed(<<>>)
             ELSE Parsed(<< [name |-> response.lines[tl].rest,
                             parameters |-> params, provider |-> "ozwell"] >>)

\* parseOzwellToolCalls: every TOOL_CALL: line overwrites toolCall and every
\* PARAMS: line overwrites params, so the last of each is used
parseOzwellToolCalls(response) ==
    IF response.kind # "string" THEN Parsed(<<>>)
    ELSE LET tl == LastLine(response.lines, "TOOL_CALL:")
             pl == LastLine(response.lines, "PARAMS:")
             params == IF pl = 0 THEN JNull
                       ELSE IF JSONparse(response.lines[pl].rest) # Throws
                       THEN JSONparse(response.lines[pl].rest)
                       ELSE JStr(RemoveQuotes(response.lines[pl].rest.raw))
         IN  IF tl = 0 \/ response.lines[tl].rest = "" THEN Parsed(<<>>)
             ELSE Parsed(<< [name |-> response.lines[tl].rest,
                             parameters |-> params, provider |-> "ozwell"] >>)

parseToolCalls(response, provider) ==
    IF provider = "openai" THEN parseOpenAIToolCalls(response)
    ELSE IF provider = "ozwell" THEN parseOzwellToolCalls(response)
    ELSE Parsed(<<>>)

(***************************************************************************)
(* MCPClient                                                               *)
(***************************************************************************)
\* log(): the 'mcp-log' message it posts to window
ClientLog(message, toolName) ==
    [type |-> "mcp-log", source |-> "mcp-client", message |-> message,
     toolName |-> toolName]

\* an entry of chatHistory
ChatEntry(role, text, toolName, subject) ==
    [role |-> role,
     content |-> [text |-> text, toolName |-> toolName, subject |-> subject]]

\* executeToolViaMCP: the counter after the call and the messages posted
executeToolViaMCP(counter, toolName, parameters) ==
    [requestCounter |-> counter + 1,
     posted |-> << ClientLog("Tool Call", toolName),
                   [type |-> "mcp-execute-tool", requestId |-> counter + 1,
                    toolName |-> toolName, parameters |-> parameters] >>]

\* the text processMessage shows when the model suggested no tool
responseText(llmResponse) ==
    IF llmResponse.kind = "object" /\ llmResponse.content.kind = "string"
    THEN "model text"
    ELSE IF llmResponse.kind = "string" THEN "model text"
    ELSE "I received your message but couldn't generate a proper response."

\* executeToolViaMCP for every call of toolCalls, one after the other
executeAll(counter, toolCalls) ==
    [requestCounter |-> counter + Len(toolCalls),
     posted |-> [i \in 1..(2 * Len(toolCalls)) |->
                    executeToolViaMCP(counter + ((i + 1) \div 2) - 1,
                                      toolCalls[(i + 1) \div 2].name,
                                      toolCalls[(i + 1) \div 2].parameters)
                        .posted[2 - (i % 2)]]]

\* processMessage that executes every tool call the model suggested
processLLMResponseAll(chat, counter, provider, llmResponse) ==
    LET parsed == parseToolCalls(llmResponse, provider)
        toolCalls == parsed.calls
        fallback == executeToolViaMCP(counter, "getContext", JObj(<<>>))
    IN  IF parsed.threw
        THEN [chat |-> chat, requestCounter |-> fallback.requestCounter,
              posted |-> fallback.posted]
        ELSE IF Len(toolCalls) > 0
        THEN LET call == executeAll(counter, toolCalls)
             IN  [chat |-> chat, requestCounter |-> call.requestCounter,
                  posted |-> << ClientLog("AI Suggested Tool Calls", "") >>
                                \o call.posted]
        ELSE [chat |-> Append(chat, ChatEntry("assistant", responseText(llmResponse),
                                              "", <<>>)),
              requestCounter |-> counter, posted |-> <<>>]

\* processMessage from the return of generateResponse on: llmResponse is
\* parsed with the provider read before the call; Object.keys of a null
\* parameters value, and a parser that throws, land in the catch that falls
\* back to getContext.
processLLMResponse(chat, counter, provider, llmResponse) ==
    LET parsed == parseToolCalls(llmResponse, provider)
        toolCalls == parsed.calls
        fallback == executeToolViaMCP(counter, "getContext", JObj(<<>>))
    IN  IF parsed.threw
        THEN [chat |-> chat, requestCounter |-> fallback.requestCounter,
              posted |-> fallback.posted]
        ELSE IF Len(toolCalls) > 0
        THEN LET suggested == << ClientLog("AI Suggested Tool Calls", "") >>
                 keysThrow == /\ Len(toolCalls) > 1
                              /\ \E i \in DOMAIN toolCalls :
                                    toolCalls[i].parameters = JNull
                 call == IF keysThrow THEN fallback
                         ELSE executeToolViaMCP(counter, toolCalls[1].name,
                                                toolCalls[1].parameters)
             IN  [chat |-> chat, requestCounter |-> call.requestCounter,
                  posted |-> suggested \o call.posted]
        ELSE [chat |-> Append(chat, ChatEntry("assistant", responseText(llmResponse),
                                              "", <<>>)),
              requestCounter |-> counter, posted |-> <<>>]

CountOf(n) == NumStr(n)
formatContextResponse(result) ==
    IF result = Undefined
    THEN [text |-> "Unable to retrieve patient context.", subject |-> <<>>]
    ELSE [text |-> "Patient Medical Summary",
          subject |-> CountOf(result.totalMedications) \o <<"/">>
                      \o CountOf(result.totalAllergies)]
formatMedicationResponse(result, message) ==
    IF result = Undefined
    THEN [text |-> IF message = "undefined" THEN "Medication added successfully."
                   ELSE message,
          subject |-> <<>>]
    ELSE [text |-> "Medication Added Successfully", subject |-> result.name]
formatDiscontinueResponse(result, message) ==
    IF result = Undefined
    THEN [text |-> IF message = "undefined" THEN "Medication discontinued successfully."
                   ELSE message,
          subject |-> <<>>]
    ELSE [text |-> "Medication Discontinued", subject |-> result.name]
formatAllergyResponse(result, message) ==
    IF result = Undefined
    THEN [text |-> IF message = "undefined" THEN "Allergy added successfully."
                   ELSE message,
          subject |-> <<>>]
    ELSE [text |-> "Allergy Added to Patient Record", subject |-> result.allergen]
formatMCPResponse(toolName, result, message) ==
    CASE toolName = "getContext" -> formatContextResponse(result)
      [] toolName = "addMedication" -> formatMedicationResponse(result, message)
      [] toolName = "discontinueMedication" -> formatDiscontinueResponse(result, message)
      [] toolName = "addAllergy" -> formatAllergyResponse(result, message)
      [] OTHER -> [text |-> IF message = "undefined"
                            THEN "Operation completed successfully." ELSE message,
                   subject |-> <<>>]

ErrorText == "I encountered an error while trying to"

\* handleToolExecutionResponse that reports only the successful executions
handleToolExecutionResponseSuccessOnly(chat, data) ==
    IF data.success
    THEN LET r == formatMCPResponse(data.toolName, data.result, data.message)
         IN  [chat |-> Append(chat, ChatEntry("assistant", r.text, data.toolName,
                                              r.subject)),
              posted |-> << ClientLog("Tool Result: SUCCESS", data.toolName) >>]
    ELSE [chat |-> chat,
          posted |-> << ClientLog("Tool Result: FAILED", data.toolName) >>]

\* handleToolExecutionResponse: chatHistory after the call and the log posted
handleToolExecutionResponse(chat, data) ==
    IF data.success
    THEN LET r == formatMCPResponse(data.toolName, data.result, data.message)
         IN  [chat |-> Append(chat, ChatEntry("assistant", r.text, data.toolName,
                                              r.subject)),
              posted |-> << ClientLog("Tool Result: SUCCESS", data.toolName) >>]
    ELSE [chat |-> Append(chat, ChatEntry("assistant", ErrorText, data.toolName,
                                          <<>>)),
          posted |-> << ClientLog("Tool Result: FAILED", data.toolName) >>]

\* The listener setupMessageListener registers, for event.data = m. The
\* cases that only touch availableTools, patientContext and the page
\* (mcp-tools-available, tools-context, mcp-context) change nothing here.
ClientListener(chat, m) ==
    CASE m.type \in {"mcp-execute-tool", "mcp-get-tools"} ->
            [chat |-> chat, posted |-> <<>>]
      [] m.type \in {"mcp-tool-response", "mcp-response"} ->
            handleToolExecutionResponse(chat, m)
      [] m.type = "medication-response" ->
            [chat |-> Append(chat, ChatEntry("assistant", m.message, "", <<>>)),
             posted |-> <<>>]
      [] OTHER -> [chat |-> chat, posted |-> <<>>]

(***************************************************************************)
(* The agent window: MCPClient and MedicalMCPServer listen on the same     *)
(* window, and window.postMessage queues a message event for both          *)
(***************************************************************************)
FromSelf(msgs) ==
    IF Len(msgs) = 0 THEN <<>>
    ELSE [i \in 1..Len(msgs) |-> [origin |-> "self", data |-> msgs[i]]]
\* of the server's postMessage calls, the messages that go to window
ToWindow(posted) ==
    LET w == SelectSeq(posted, LAMBDA e : e.to = "window")
    IN  IF Len(w) = 0 THEN <<>> ELSE [i \in 1..Len(w) |-> w[i].msg]
\* and those that go to window.parent or to event.source
Away(posted) == SelectSeq(posted, LAMBDA e : e.to # "window")
\* the same calls made in a top-level window, where window.parent is window
\* and the event.source of a message the window posted to itself is window
ToSelf(posted, origin) ==
    IF Len(posted) = 0 THEN <<>>
    ELSE [i \in 1..Len(posted) |->
            [to |-> IF posted[i].to = "source" /\ origin # "self"
                    THEN "source" ELSE "window",
             msg |-> posted[i].msg]]

\* DOMContentLoaded in the agent window: the server loads the demo record
\* and its timer posts the tools list to window
AgentServerInitialize ==
    /\ ~initialized
    /\ localMedications' = DemoMedications
    /\ localAllergies' = DemoAllergies
    /\ initialized' = TRUE
    /\ queue' = queue \o FromSelf(ToWindow(sendAvailableTools))
    /\ outbox' = <<>>
    /\ event' = [type |-> "DOMContentLoaded"]
    /\ UNCHANGED <<now, chatHistory, requestCounter, processingMessage,
                   currentProvider, llmCall>>
    /\ UNCHANGED widgetVars

Providers == {"openai", "ozwell"}
\* The user configures a provider and picks it in the dropdown
\* (saveConfiguration, setCurrentProvider)
SelectProvider ==
    \E p \in Providers :
        /\ currentProvider # p
        /\ currentProvider' = p
        /\ outbox' = <<>>
        /\ event' = [type |-> "select-provider"]
        /\ UNCHANGED <<srvVars, queue, chatHistory, requestCounter,
                       processingMessage, llmCall>>
    /\ UNCHANGED widgetVars

UserText == "user text"
\* processMessage that starts a request whether or not one is in progress
processMessageUnguarded(processing, call, provider, index) ==
    IF provider = "none"
    THEN [processingMessage |-> FALSE, llmCall |-> call, outcome |-> "no model"]
    ELSE [processingMessage |-> TRUE,
          llmCall |-> [provider |-> provider, index |-> index],
          outcome |-> "awaiting"]

\* processMessage up to the await of generateResponse, for the message at
\* index of chatHistory: the flag and the request in flight after it, and
\* what the user sees. A call made while the flag is set returns at once;
\* with no provider selected the error text is shown (addMessage only, it
\* is not pushed to chatHistory) and the finally block clears the flag.
processMessage(processing, call, provider, index) ==
    IF processing
    THEN [processingMessage |-> processing, llmCall |-> call, outcome |-> "skipped"]
    ELSE IF provider = "none"
    THEN [processingMessage |-> FALSE, llmCall |-> call, outcome |-> "no model"]
    ELSE [processingMessage |-> TRUE,
          llmCall |-> [provider |-> provider, index |-> index],
          outcome |-> "awaiting"]

\* sendMessage with a non-empty text that is no command, up to the await of
\* generateResponse inside processMessage
SendMessage ==
    /\ initialized
    /\ Len(chatHistory) < MaxChat
    /\ requestCounter < MaxRequests
    /\ chatHistory' = Append(chatHistory, ChatEntry("user", UserText, "", <<>>))
    /\ LET pm == processMessage(processingMessage, llmCall, currentProvider,
                                Len(chatHistory) + 1)
       IN  /\ processingMessage' = pm.processingMessage
           /\ llmCall' = pm.llmCall
           /\ event' = [type |-> "send", index |-> Len(chatHistory) + 1,
                        outcome |-> pm.outcome]
    /\ outbox' = <<>>
    /\ UNCHANGED <<srvVars, queue, requestCounter, currentProvider>>
    /\ UNCHANGED widgetVars

\* the bodies the providers' endpoints answer with
ChatData(message) == [shape |-> "chat", message |-> message]
CompletionData(lines) == [shape |-> "completion", text |-> lines]
Line(head, rest) == [head |-> head, rest |-> rest]
pAspirin == MedArgs(sAspirin, s10mg)
pAllergyAsp == JObj([allergen |-> sAsp])
pStopLisinopril == JObj([medId |-> sLisinopril])
NoArgs == JObj(<<>>)
OpenAIData ==
    {ChatData(MessageObject(NullResponse, calls)) : calls \in
        {<<FunctionCall("getContext", JsonText(NoArgs))>>,
         <<FunctionCall("addMedication", JsonText(pAspirin))>>,
         <<FunctionCall("discontinueMedication", JsonText(pStopLisinopril))>>,
         <<FunctionCall("addAllergy", JsonText(pAllergyAsp))>>,
         <<FunctionCall("addAllergy", JsonText(pAllergyAsp)),
           FunctionCall("addMedication", JsonText(pAspirin))>>,
         <<FunctionCall("addMedication", NotJson(sAspirin))>>,
         <<FunctionCall("addMedication", JsonText(pAspirin)),
           FunctionCall("getContext", JsonText(JNull))>>}}
    \cup {ChatData(MessageObject(StringResponse(<<Line("text", "")>>), <<>>))}
OzwellData ==
    {CompletionData(lines) : lines \in
        {<<Line("TOOL_CALL:", "getContext"), Line("PARAMS:", JsonText(NoArgs))>>,
         <<Line("text", ""), Line("TOOL_CALL:", "addMedication"),
           Line("PARAMS:", JsonText(pAspirin))>>,
         <<Line("TOOL_CALL:", "discontinueMedication"),
           Line("PARAMS:", NotJson(<<"\"">> \o sLisinopril \o <<"\"">>))>>,
         <<Line("TOOL_CALL:", "addAllergy"), Line("PARAMS:", JsonText(pAllergyAsp)),
           Line("TOOL_CALL:", "getContext")>>,
         <<Line("TOOL_CALL:", "addAllergy")>>,
         <<Line("text", "")>>}}
    \cup {[shape |-> "error"]}
APIData(provider) == IF provider = "openai" THEN OpenAIData ELSE OzwellData

\* The fetch of the awaited generateResponse answers 200 with a body: the
\* rest of processMessage runs, then its finally block
LLMReturn ==
    /\ llmCall # NoCall
    /\ \E data \in APIData(llmCall.provider) :
        LET llmResponse == handleNonStreamingResponse(data, currentProvider)
            out == IF llmResponse = Throws
                   THEN LET fb == executeToolViaMCP(requestCounter, "getContext",
                                                    JObj(<<>>))
                        IN  [chat |-> chatHistory,
                             requestCounter |-> fb.requestCounter,
                             posted |-> fb.posted]
                   ELSE processLLMResponse(chatHistory, requestCounter,
                                           llmCall.provider, llmResponse)
        IN  /\ chatHistory' = out.chat
            /\ requestCounter' = out.requestCounter
            /\ queue' = queue \o FromSelf(out.posted)
            /\ event' = [type |-> "llm-response", provider |-> llmCall.provider,
                         current |-> currentProvider, data |-> data,
                         index |-> llmCall.index]
    /\ processingMessage' = FALSE
    /\ llmCall' = NoCall
    /\ outbox' = <<>>
    /\ UNCHANGED <<srvVars, currentProvider>>
    /\ UNCHANGED widgetVars

\* The fetch fails or answers with an error status: generateResponse throws
\* 'API request failed', and the catch falls back to getContext
LLMThrow ==
    /\ llmCall # NoCall
    /\ LET fb == executeToolViaMCP(requestCounter, "getContext", JObj(<<>>))
       IN  /\ requestCounter' = fb.requestCounter
           /\ queue' = queue \o FromSelf(fb.posted)
    /\ processingMessage' = FALSE
    /\ llmCall' = NoCall
    /\ outbox' = <<>>
    /\ event' = [type |-> "llm-error", index |-> llmCall.index]
    /\ UNCHANGED <<srvVars, chatHistory, currentProvider>>
    /\ UNCHANGED widgetVars

\* The event loop takes the oldest queued message event; every dispatch
\* makes a new event object, which the bit tells from the one before it
Dispatch ==
    /\ queue # <<>>
    /\ event' = [type |-> "message", origin |-> Head(queue).origin,
                 data |-> Head(queue).data,
                 bit |-> IF event.type = "message" THEN 1 - event.bit ELSE 0]

\* and the server's listener and the client's listener both run on it
Deliver ==
    /\ Dispatch
    /\ \E first \in {ServerListener(localMedications, localAllergies,
                                    Head(queue).data, now)} :
       \E t \in IF Len(first.meds) > Len(localMedications)
                   \/ Len(first.alls) > Len(localAllergies)
                THEN now..MaxClock ELSE {now} :
       \E srv \in {ServerListener(localMedications, localAllergies,
                                  Head(queue).data, t)} :
       \E cli \in {ClientListener(chatHistory, Head(queue).data)} :
       \E posted \in {IF parentIsSelf THEN ToSelf(srv.posted, Head(queue).origin)
                       ELSE srv.posted} :
            /\ localMedications' = srv.meds
            /\ localAllergies' = srv.alls
            /\ now' = t
            /\ chatHistory' = cli.chat
            /\ queue' = Tail(queue) \o FromSelf(ToWindow(posted))
                            \o FromSelf(cli.posted)
            /\ outbox' = Away(posted)
    /\ UNCHANGED <<initialized, requestCounter, processingMessage,
                   currentProvider, llmCall>>
    /\ UNCHANGED widgetVars

AgentInit == ServerConstructed /\ ClientConstructed /\ WidgetsConstructed
AgentNext ==
    \/ AgentServerInitialize
    \/ SelectProvider
    \/ SendMessage
    \/ LLMReturn
    \/ LLMThrow
    \/ Deliver
AgentSpec == AgentInit /\ [][AgentNext]_vars
\* the event loop does not leave a queued message event undispatched
AgentFairSpec == AgentSpec /\ WF_event(Dispatch)

\* the fetch generateResponse awaits settles, with a body or with an error
AgentLiveSpec == AgentSpec /\ WF_event(Dispatch) /\ WF_vars(LLMReturn \/ LLMThrow)

\* The agent page opened on its own or embedded: main.js tests
\* window.parent !== window, either can be the case
WindowInit ==
    /\ ServerConstructed /\ ClientConstructed
    /\ BotConstructed("SimpleChatbot", KeyNull) /\ OzwellConstructed
    /\ IframeConstructed /\ ProxyListening /\ DataManagerConstructed
    /\ parentIsSelf \in BOOLEAN
WindowSpec == WindowInit /\ [][AgentNext]_vars /\ WF_event(Dispatch)

\* A window of another origin that holds a reference to the agent window
\* posts a message to it
MaxQueue == 2       \* a foreign window posts only to a queue shorter than this
ForeignMessages ==
    {[type |-> "mcp-execute-tool", requestId |-> 7,
      toolName |-> "addMedication", parameters |-> pAspirin],
     [type |-> "mcp-execute-tool", requestId |-> 7,
      toolName |-> "discontinueMedication", parameters |-> pStopLisinopril],
     [type |-> "mcp-tool-response", requestId |-> 7,
      toolName |-> "addAllergy", success |-> TRUE, result |-> Undefined,
      message |-> "undefined", error |-> "undefined"]}
ForeignPost ==
    /\ initialized
    /\ Len(queue) < MaxQueue
    /\ Len(chatHistory) < MaxChat
    /\ Len(localMedications) < MaxMeds
    /\ \E m \in ForeignMessages :
        queue' = Append(queue, [origin |-> "foreign", data |-> m])
    /\ outbox' = <<>>
    /\ event' = [type |-> "foreign-post"]
    /\ UNCHANGED <<srvVars, chatHistory, requestCounter, processingMessage,
                   currentProvider, llmCall>>
    /\ UNCHANGED widgetVars

\* The agent window while its user has selected no provider, so that
\* nothing but the foreign window makes a tool request
OriginNext ==
    \/ AgentServerInitialize
    \/ SendMessage
    \/ Deliver
    \/ ForeignPost
OriginSpec == AgentInit /\ [][OriginNext]_vars

(***************************************************************************)
(* Properties of the agent                                                 *)
(***************************************************************************)
RelayedTools == {"getContext", "addMedication", "discontinueMedication", "addAllergy"}

\* The tool-call directives a response body holds, read off the body: one
\* per function entry of tool_calls, one per TOOL_CALL: line (with the
\* PARAMS: line that follows it, if one does)
ParamsOf(text) == IF text.json THEN text.value ELSE JStr(RemoveQuotes(text.raw))
Directives(data) ==
    IF data.shape = "chat"
    THEN {[at |-> i, name |-> data.message.tool_calls[i].function.name,
           readable |-> data.message.tool_calls[i].function.arguments.json,
           parameters |-> data.message.tool_calls[i].function.arguments.value] :
            i \in DOMAIN data.message.tool_calls}
    ELSE IF data.shape = "completion"
    THEN {[at |-> i, name |-> data.text[i].rest,
           readable |-> TRUE,
           parameters |-> IF i + 1 \in DOMAIN data.text
                             /\ data.text[i + 1].head = "PARAMS:"
                          THEN ParamsOf(data.text[i + 1].rest)
                          ELSE JNull] :
            i \in {j \in DOMAIN data.text : data.text[j].head = "TOOL_CALL:"}}
    ELSE {}
\* the messages a step appended to the queue behind the first k it had
Appended(k) == SubSeq(queue', k + 1, Len(queue'))
ExecsIn(box) == SelectSeq(box, LAMBDA e : e.data.type = "mcp-execute-tool")
ResponsesIn(box) == SelectSeq(box, LAMBDA e : e.data.type = "mcp-tool-response")
\* exactly one 'mcp-execute-tool' was appended, and it carries d
RelaysExactly(d) ==
    LET execs == ExecsIn(Appended(Len(queue)))
    IN  /\ Len(execs) = 1
        /\ execs[1].data.toolName = d.name
        /\ execs[1].data.parameters = d.parameters
        /\ execs[1].data.requestId = requestCounter'
        /\ requestCounter' = requestCounter + 1

ExecQueued(id) ==
    \E i \in DOMAIN queue :
        queue[i].data.type = "mcp-execute-tool" /\ queue[i].data.requestId = id
Reported(id) ==
    /\ event.type = "message"
    /\ event.data.type = "mcp-tool-response"
    /\ event.data.requestId = id
    /\ chatHistory # <<>>
    /\ chatHistory[Len(chatHistory)].role = "assistant"
    /\ chatHistory[Len(chatHistory)].content.toolName = event.data.toolName
InFlight(id) ==
    Len(SelectSeq(queue, LAMBDA e :
            /\ e.data.type \in {"mcp-execute-tool", "mcp-tool-response"}
            /\ e.data.requestId = id))

C7_OriginChecked ==
    [][(/\ event'.type = "message"
        /\ event'.origin = "foreign"
        /\ event'.data.type \in {"mcp-execute-tool", "mcp-tool-response"})
       => UNCHANGED <<localMedications, localAllergies, chatHistory>>]_vars

\* the 'mcp-execute-tool' messages the step queued
NewExecs ==
    ExecsIn(Appended(IF event'.type = "message" THEN Len(queue) - 1 ELSE Len(queue)))
PostsNothing == NewExecs = <<>> /\ requestCounter' = requestCounter
PostsOne(toolName, parameters) ==
    /\ Len(NewExecs) = 1
    /\ NewExecs[1].data.toolName = toolName
    /\ NewExecs[1].data.parameters = parameters
    /\ NewExecs[1].data.requestId = requestCounter + 1
    /\ requestCounter' = requestCounter + 1
UserEntries == Len(SelectSeq(chatHistory, LAMBDA e : e.role = "user"))

\* C14: processMessage never has two LLM requests in flight.  The flag is
\* set exactly while a generateResponse call is awaited; a message sent
\* while it is set leaves that call as it is, calls no LLM and posts no
\* tool request; and the flag is false again after the call ends with a
\* body (direct reply or tool request), after it ends with an error, and
\* after a message sent with no provider selected.
C14_OneRequestInFlight ==
    /\ [](processingMessage <=> llmCall # NoCall)
    /\ [][(processingMessage /\ event'.type = "send")
          => /\ event'.outcome = "skipped"
             /\ UNCHANGED <<llmCall, processingMessage>>
             /\ PostsNothing]_vars
    /\ [][(~processingMessage /\ event'.type = "send")
          => IF currentProvider = "none"
             THEN /\ event'.outcome = "no model"
                  /\ ~processingMessage' /\ llmCall' = NoCall /\ PostsNothing
             ELSE /\ event'.outcome = "awaiting"
                  /\ processingMessage'
                  /\ llmCall' = [provider |-> currentProvider,
                                 index |-> Len(chatHistory')]]_vars
    /\ [][event'.type \in {"llm-response", "llm-error"}
          => /\ processingMessage /\ event'.index = llmCall.index
             /\ ~processingMessage' /\ llmCall' = NoCall]_vars
\* a second message was sent while the first one's request was in flight
C14_Witness ==
    /\ event.type = "send" /\ event.outcome = "skipped" /\ event.index = 2
    /\ processingMessage
    /\ llmCall.index = 1

Sent(i) == event.type = "send" /\ event.index = i
\* processMessage has dealt with message i: the error text for a missing
\* provider is on the page, or the model's answer has been handled (the
\* reply appended, or the tool request posted whose result is the reply)
TakenUp(i) ==
    /\ event.type \in {"send", "llm-response", "llm-error"}
    /\ event.index = i
    /\ event.type = "send" => event.outcome = "no model"

\* C15 as stated: every user message sendMessage appends to chatHistory is
\* eventually followed by a reply for it, a message sent while an earlier
\* one is still being processed included.
C15_EveryMessageAnswered ==
    \A i \in 1..MaxChat : Sent(i) ~> TakenUp(i)

FirstDirective(data) ==
    CHOOSE d \in Directives(data) : \A o \in Directives(data) : d.at <= o.at

\* C17 as stated: when an Ozwell-style response text holds several
\* TOOL_CALL directives, the tool request posted names the first TOOL_CALL
\* of the text and carries the PARAMS that belong to it.
C17_FirstToolCallExecuted ==
    [][(/\ event'.type = "llm-response"
        /\ event'.provider = "ozwell" /\ event'.current = "ozwell"
        /\ event'.data.shape = "completion"
        /\ Cardinality(Directives(event'.data)) > 1)
       => PostsOne(FirstDirective(event'.data).name,
                   FirstDirective(event'.data).parameters)]_vars

\* how many further rounds of messages a message of this type can cause
Rank(m) ==
    CASE m.type = "mcp-execute-tool" -> 3
      [] m.type \in {"mcp-tool-response", "mcp-response", "mcp-get-tools",
                     "request-tools-context"} -> 2
      [] m.type = "mcp-log" -> 1
      [] OTHER -> 0
\* the messages the two listeners posted while the head of queue was
\* delivered: those queued behind the rest of queue, and those sent away
PostedBy(q, qAfter, away) ==
    {qAfter[i].data : i \in Len(q)..Len(qAfter)} \cup {away[j].msg : j \in DOMAIN away}

\* C25: message handling on the agent window terminates, embedded or
\* top-level (window.parent the window itself): every message the listeners
\* post while a message event is delivered is of a type that causes fewer
\* further rounds than the delivered one (none re-posts its own type), and
\* once the user sends no more messages the queue empties for good.
C25_MessageHandlingTerminates ==
    /\ [][(event'.type = "message" /\ queue # <<>>)
          => \A m \in PostedBy(queue, queue', outbox') :
                Rank(m) < Rank(Head(queue).data)]_vars
    /\ <>[](queue = <<>>)
\* in a top-level window, the server's answer to a log line has come back to
\* the window after a tool request was served, and nothing is left queued
C25_Witness ==
    /\ parentIsSelf
    /\ event.type = "message"
    /\ event.data.type = "mcp-log-reponse"
    /\ requestCounter > 0
    /\ Len(chatHistory) > 1
    /\ queue = <<>>

(***************************************************************************)
(* SimpleChatbot and OzwelAIChatbot                                        *)
(***************************************************************************)
MaxBotMessages == 4     \* no message is sent and no key saved once the history is this long

sSkPrefix == <<"s","k","-">>
sSkKey == <<"s","k","-","a","1">>
sPlainKey == <<"a","1">>
s120over80 == <<"1","2","0","/","8","0">>
s95 == <<"9","5">>

\* this.apiKey && this.apiKey.startsWith("sk-")
UsableKey(k) == KeyPresent(k) /\ startsWith(k.s, sSkPrefix)

IsDigit(c) == \E i \in DOMAIN Digits : Digits[i] = c
\* the end of the longest run of digits that starts at s[i]
DigitsEnd(s, i) ==
    CHOOSE j \in i..Len(s) :
        /\ \A k \in i..j : IsDigit(s[k])
        /\ j = Len(s) \/ ~IsDigit(s[j + 1])

\* lowerMessage.match(/(\d+)\/(\d+)/): match[0] of the leftmost match,
\* <<>> when match returns null
matchBloodPressure(s) ==
    LET starts == {i \in 1..Len(s) :
                      /\ IsDigit(s[i])
                      /\ LET j == DigitsEnd(s, i)
                         IN  j + 2 <= Len(s) /\ s[j + 1] = "/" /\ IsDigit(s[j + 2])}
    IN  IF starts = {} THEN <<>>
        ELSE LET i == MinOf(starts)
                 j == DigitsEnd(s, i)
             IN  SubSeq(s, i, DigitsEnd(s, j + 2))

\* lowerMessage.match(/(\d+)\s*(mg\/dl)?/): match[1] of the leftmost match,
\* <<>> when match returns null
matchBloodSugar(s) ==
    LET starts == {i \in 1..Len(s) : IsDigit(s[i])}
    IN  IF starts = {} THEN <<>>
        ELSE SubSeq(s, MinOf(starts), DigitsEnd(s, MinOf(starts)))

DigitValue(c) == (CHOOSE i \in DOMAIN Digits : Digits[i] = c) - 1
RECURSIVE parseInt(_)
parseInt(d) ==
    IF Len(d) = 0 THEN 0
    ELSE 10 * parseInt(SubSeq(d, 1, Len(d) - 1)) + DigitValue(d[Len(d)])

\* A reply text: which template it is, the blood pressure it states (<<>>
\* when it states none), and the text spliced into the template
Reply(kind, bp, detail) == [kind |-> kind, bp |-> bp, detail |-> detail]

SugarStatus(level) ==
    IF parseInt(level) < 100 THEN "Normal"
    ELSE IF parseInt(level) < 126 THEN "Prediabetic range"
    ELSE "Diabetic range"

\* generateResponse below the API-key branch: the rule-based responses
RuleBasedResponse(message) ==
    LET lowerMessage == toLowerCase(message)
    IN  IF \/ includes(lowerMessage, <<"p","a","t","i","e","n","t"," ","i","n","f","o">>)
           \/ includes(lowerMessage, <<"p","a","t","i","e","n","t"," ","i","n","f","o","r","m","a","t","i","o","n">>)
        THEN Reply("Patient Information", s120over80, <<>>)
        ELSE IF includes(lowerMessage, <<"b","l","o","o","d"," ","p","r","e","s","s","u","r","e">>)
        THEN LET match == matchBloodPressure(lowerMessage)
             IN  IF match # <<>>
                 THEN Reply("Blood Pressure Updated", match, <<>>)
                 ELSE Reply("Blood Pressure Information", s120over80, <<>>)
        ELSE IF includes(lowerMessage, <<"b","l","o","o","d"," ","s","u","g","a","r">>)
        THEN LET match == matchBloodSugar(lowerMessage)
             IN  IF match # <<>>
                 THEN Reply("Blood Sugar Updated", <<>>, <<match, SugarStatus(match)>>)
                 ELSE Reply("Blood Sugar Information", <<>>, s95)
        ELSE IF \/ includes(lowerMessage, <<"m","e","d","i","c","a","t","i","o","n">>)
                \/ includes(lowerMessage, <<"a","d","d"," ","m","e","d","i","c","a","t","i","o","n">>)
        THEN Reply("Medication Management", <<>>, <<>>)
        ELSE IF \/ includes(lowerMessage, <<"v","i","t","a","l"," ","s","i","g","n","s">>)
                \/ includes(lowerMessage, <<"v","i","t","a","l","s">>)
        THEN Reply("Current Vital Signs", s120over80, <<>>)
        ELSE Reply("default", <<>>, <<>>)

sNoResponse == <<"N","o"," ","r","e","s","p","o","n","s","e"," ","f","r","o","m"," ","O","p","e","n","A","I">>
sFailedToFetch == <<"F","a","i","l","e","d"," ","t","o"," ","f","e","t","c","h">>
sUnexpectedToken == <<"U","n","e","x","p","e","c","t","e","d"," ","t","o","k","e","n"," ","<"," ","i","n"," ","J","S","O","N"," ","a","t"," ","p","o","s","i","t","i","o","n"," ","0">>
sDirectBlocked == <<"S","e","r","v","e","r"," ","u","n","a","v","a","i","l","a","b","l","e"," ","a","n","d"," ","d","i","r","e","c","t"," ","O","p","e","n","A","I"," ","c","a","l","l","s"," ","a","r","e"," ","b","l","o","c","k","e","d"," ","b","y"," ","C","O","R","S","."," ","P","l","e","a","s","e"," ","s","t","a","r","t"," ","t","h","e"," ","s","e","r","v","e","r"," ","c","o","m","p","o","n","e","n","t"," ","o","r"," ","u","s","e"," ","t","h","e"," ","b","u","i","l","t","-","i","n"," ","r","e","s","p","o","n","s","e","s",".">>
sInvalidKey == <<"I","n","v","a","l","i","d"," ","A","P","I"," ","k","e","y">>
sInternalError == <<"I","n","t","e","r","n","a","l"," ","s","e","r","v","e","r"," ","e","r","r","o","r">>
sNotFound == <<"N","o","t"," ","F","o","u","n","d">>
sIncorrectKey == <<"I","n","c","o","r","r","e","c","t"," ","A","P","I"," ","k","e","y"," ","p","r","o","v","i","d","e","d">>
sRateLimit == <<"R","a","t","e"," ","l","i","m","i","t"," ","r","e","a","c","h","e","d"," ","f","o","r"," ","r","e","q","u","e","s","t","s">>
sOverloaded == <<"T","h","e"," ","s","e","r","v","e","r"," ","i","s"," ","o","v","e","r","l","o","a","d","e","d">>

\* the catch of getOpenAIResponse: every error becomes a reply text
ErrorReply(w, errorMessage) ==
    IF includes(errorMessage, <<"4","0","1">>)
    THEN Reply("Authentication Error", <<>>, errorMessage)
    ELSE IF includes(errorMessage, <<"4","2","9">>)
    THEN Reply("Rate Limit Exceeded", <<>>, errorMessage)
    ELSE IF includes(errorMessage, <<"q","u","o","t","a">>)
    THEN Reply("Quota Exceeded", <<>>, errorMessage)
    ELSE IF w = "OzwelAIChatbot" /\ includes(errorMessage, <<"S","e","r","v","e","r"," ","u","n","a","v","a","i","l","a","b","l","e">>)
    THEN Reply("Server Configuration Required", <<>>, errorMessage)
    ELSE Reply("API Connection Error", <<>>, errorMessage)

\* what api.openai.com answers to a chat completion request
Upstream(status, message, choices) ==
    [rejects |-> FALSE, status |-> status, message |-> message, choices |-> choices]
UpstreamUnreachable == [rejects |-> TRUE, status |-> 0, message |-> <<>>, choices |-> 0]
OpenAIAnswers ==
    {Upstream(200, <<>>, 1), Upstream(200, <<>>, 0),
     Upstream(401, sIncorrectKey, 0), Upstream(429, sRateLimit, 0),
     Upstream(503, sOverloaded, 0), UpstreamUnreachable}

\* an HTTP response as the page's fetch sees it
Response(status, isJson, error, choices) ==
    [rejects |-> FALSE, status |-> status, isJson |-> isJson, error |-> error,
     choices |-> choices]
FetchRejects ==
    [rejects |-> TRUE, status |-> 0, isJson |-> FALSE, error |-> <<>>, choices |-> 0]
ok(r) == r.status >= 200 /\ r.status <= 299

\* app.post("/api/openai/chat") of the project's server
proxyChat(body, upstream) ==
    IF ~UsableKey(body.apiKey) THEN Response(400, TRUE, sInvalidKey, 0)
    ELSE IF upstream.rejects THEN Response(500, TRUE, sInternalError, 0)
    ELSE IF ~(upstream.status >= 200 /\ upstream.status <= 299)
    THEN Response(upstream.status, TRUE,
                  <<"O","z","w","e","l","l"," ","A","I"," ","A","P","I"," ","E","r","r","o","r",":"," ">> \o upstream.message, 0)
    ELSE Response(200, TRUE, <<>>, upstream.choices)

\* a network request: the host it goes to, who sends it, and the key it carries
Request(to, from, path, key) == [to |-> to, from |-> from, path |-> path, apiKey |-> key]
Origin == "the page's origin"
OpenAIHost == "api.openai.com"

\* what the fetch of /api/openai/chat can settle with: the proxy's answer,
\* the 404 of a server without the route, a body that is not JSON, or a
\* rejection
ProxyResponses(body) ==
    {proxyChat(body, u) : u \in OpenAIAnswers}
    \cup {Response(404, TRUE, sNotFound, 0), Response(200, FALSE, <<>>, 0), FetchRejects}

ChatMessage(type, content) == [type |-> type, content |-> content]
\* addMessage
addMessage(history, type, content) == Append(history, ChatMessage(type, content))

Widgets == {"SimpleChatbot", "OzwelAIChatbot"}
StoredKeys == {KeyNull, KeyOf(sSkKey), KeyOf(sPlainKey)}

UserMessages ==
    {<<"S","h","o","w"," ","p","a","t","i","e","n","t"," ","i","n","f","o">>, <<"U","p","d","a","t","e"," ","b","l","o","o","d"," ","p","r","e","s","s","u","r","e"," ","t","o"," ","1","3","0","/","8","5">>,
     <<"b","l","o","o","d"," ","p","r","e","s","s","u","r","e">>, <<"U","p","d","a","t","e"," ","b","l","o","o","d"," ","s","u","g","a","r"," ","t","o"," ","1","1","0">>, <<"v","i","t","a","l","s">>, <<"h","e","l","l","o">>}

BotEvent(op, failed) == [type |-> "chatbot", op |-> op, failed |-> failed]

MaxReconnects == 1      \* reconnect() is not called while this many of its timers are pending

\* reinitialize(): the connection status it leaves; SimpleChatbot's
\* reinitialize does not touch the status
reinitialize(w, k, status) ==
    IF w # "OzwelAIChatbot" THEN status
    ELSE IF UsableKey(k) THEN "Connected (Ozwel AI)"
    ELSE "Connected"

\* The settings panel stores a key and calls reinitialize()
BotSaveKey ==
    /\ Len(messages) < MaxBotMessages
    /\ \E k \in StoredKeys \ {KeyNull, localStorageKey} :
        /\ localStorageKey' = k
        /\ apiKey' = k
        /\ messages' = addMessage(messages, "system",
                           IF UsableKey(k) THEN Reply("key updated", <<>>, <<>>)
                           ELSE Reply("configuration updated", <<>>, <<>>))
    /\ connectionStatus' = reinitialize(widget, apiKey', connectionStatus)
    /\ event' = BotEvent("reinitialize", FALSE)
    /\ UNCHANGED <<widget, botPc, botCall, requests, reconnecting>>
    /\ UNCHANGED <<srvVars, outbox, agentVars, ozVars, iframeVars, laterVars>>

\* reconnect() up to its 2000 ms timer
BotReconnect ==
    /\ reconnecting < MaxReconnects
    /\ Len(messages) + reconnecting < MaxBotMessages
    /\ connectionStatus' = "Reconnecting..."
    /\ reconnecting' = reconnecting + 1
    /\ event' = BotEvent("reconnect", FALSE)
    /\ UNCHANGED botVars
    /\ UNCHANGED <<srvVars, outbox, agentVars, ozVars, iframeVars, laterVars>>

\* A timer of reconnect() fires
BotReconnected ==
    /\ reconnecting > 0
    /\ connectionStatus' = "Connected"
    /\ reconnecting' = reconnecting - 1
    /\ messages' = addMessage(messages, "system", Reply("Reconnected", <<>>, <<>>))
    /\ event' = BotEvent("reconnected", FALSE)
    /\ UNCHANGED <<widget, localStorageKey, apiKey, botPc, botCall, requests>>
    /\ UNCHANGED <<srvVars, outbox, agentVars, ozVars, iframeVars, laterVars>>

\* sendMessage(text) up to the 1000 ms timer
BotSendMessage ==
    /\ botPc = "idle"
    /\ Len(messages) + 1 < MaxBotMessages
    /\ \E m \in UserMessages :
        /\ messages' = addMessage(messages, "user", Reply("user", <<>>, m))
        /\ botCall' = [message |-> m, apiKey |-> KeyNull]
    /\ botPc' = "timer"
    /\ event' = BotEvent("sendMessage", FALSE)
    /\ UNCHANGED <<widget, localStorageKey, apiKey, requests>>
    /\ UNCHANGED <<srvVars, outbox, agentVars, ozVars, pageVars>>

\* The timer fires: generateResponse runs up to its first fetch, or to the
\* rule-based reply when no usable key is set
BotGenerateResponse ==
    /\ botPc = "timer"
    /\ IF UsableKey(apiKey)
       THEN /\ botCall' = [botCall EXCEPT !.apiKey = apiKey]
            /\ IF widget = "OzwelAIChatbot"
               THEN /\ requests' = Append(requests,
                                       Request(Origin, "page", "/health", KeyNull))
                    /\ botPc' = "health"
               ELSE /\ requests' = Append(requests,
                                       Request(Origin, "page", "/api/openai/chat", apiKey))
                    /\ botPc' = "proxy"
            /\ UNCHANGED messages
       ELSE /\ messages' = addMessage(messages, "assistant",
                                      RuleBasedResponse(botCall.message))
            /\ botPc' = "idle"
            /\ UNCHANGED <<botCall, requests>>
    /\ event' = BotEvent("generateResponse", FALSE)
    /\ UNCHANGED <<widget, localStorageKey, apiKey>>
    /\ UNCHANGED <<srvVars, outbox, agentVars, ozVars, pageVars>>

\* OzwelAIChatbot.checkServerAvailability settles: the proxy is asked when
\* /health answered ok, api.openai.com otherwise
BotHealthAnswer ==
    /\ botPc = "health"
    /\ \E serverAvailable \in BOOLEAN :
        IF serverAvailable
        THEN /\ requests' = Append(requests,
                     Request(Origin, "page", "/api/openai/chat", botCall.apiKey))
             /\ botPc' = "proxy"
        ELSE /\ requests' = Append(requests,
                     Request(OpenAIHost, "page", "/v1/chat/completions", botCall.apiKey))
             /\ botPc' = "direct"
    /\ event' = BotEvent("checkServerAvailability", FALSE)
    /\ UNCHANGED <<widget, localStorageKey, apiKey, messages, botCall>>
    /\ UNCHANGED <<srvVars, outbox, agentVars, ozVars, pageVars>>

\* the error message SimpleChatbot.getOpenAIResponse throws for a response
\* that is not ok
ApiError(r) == <<"A","P","I"," ","E","r","r","o","r",":"," ">> \o NumStr(r.status) \o <<" ","-"," ">> \o r.error

\* getOpenAIResponse after the fetch of /api/openai/chat settled with r:
\* the reply, or direct when OzwelAIChatbot goes on to callOpenAIDirectly
afterProxy(w, r) ==
    IF r.rejects THEN [direct |-> FALSE, failed |-> TRUE,
                       reply |-> ErrorReply(w, sFailedToFetch)]
    ELSE IF ~ok(r)
    THEN IF w = "OzwelAIChatbot"
         THEN [direct |-> TRUE, failed |-> TRUE, reply |-> Reply("none", <<>>, <<>>)]
         ELSE [direct |-> FALSE, failed |-> TRUE, reply |-> ErrorReply(w, ApiError(r))]
    ELSE IF ~r.isJson
    THEN IF w = "OzwelAIChatbot"
         THEN [direct |-> TRUE, failed |-> TRUE, reply |-> Reply("none", <<>>, <<>>)]
         ELSE [direct |-> FALSE, failed |-> TRUE,
               reply |-> ErrorReply(w, sUnexpectedToken)]
    ELSE IF r.choices > 0
    THEN [direct |-> FALSE, failed |-> FALSE,
          reply |-> Reply("AI Assistant Response", <<>>, <<>>)]
    ELSE [direct |-> FALSE, failed |-> TRUE, reply |-> ErrorReply(w, sNoResponse)]

\* The fetch of /api/openai/chat settles.  A proxy that accepted the key
\* has sent it on to api.openai.com.
BotProxyAnswer ==
    /\ botPc = "proxy"
    /\ \E r \in ProxyResponses([message |-> botCall.message, apiKey |-> botCall.apiKey]) :
       \E forwarded \in IF r.rejects \/ r.status \in {400, 404} \/ ~r.isJson
                        THEN {FALSE} ELSE {TRUE} :
        LET sent == IF forwarded
                    THEN Append(requests, Request(OpenAIHost, "server",
                                    "/v1/chat/completions", botCall.apiKey))
                    ELSE requests
            out == afterProxy(widget, r)
        IN  IF out.direct
            THEN /\ requests' = Append(sent, Request(OpenAIHost, "page",
                                    "/v1/chat/completions", botCall.apiKey))
                 /\ botPc' = "direct"
                 /\ event' = BotEvent("proxy answer", FALSE)
                 /\ UNCHANGED messages
            ELSE /\ requests' = sent
                 /\ botPc' = "idle"
                 /\ event' = BotEvent("reply", out.failed)
                 /\ messages' = addMessage(messages, "assistant", out.reply)
    /\ UNCHANGED <<widget, localStorageKey, apiKey, botCall>>
    /\ UNCHANGED <<srvVars, outbox, agentVars, ozVars, pageVars>>

\* callOpenAIDirectly settles: the reply of api.openai.com, or the one
\* error it throws for every failure, which getOpenAIResponse catches
callOpenAIDirectly(w, u) ==
    IF ~u.rejects /\ u.status >= 200 /\ u.status <= 299 /\ u.choices > 0
    THEN [failed |-> FALSE, reply |-> Reply("AI Assistant Response (Direct Connection)", <<>>, <<>>)]
    ELSE [failed |-> TRUE, reply |-> ErrorReply(w, sDirectBlocked)]

BotDirectAnswer ==
    /\ botPc = "direct"
    /\ \E u \in OpenAIAnswers :
        LET out == callOpenAIDirectly(widget, u)
        IN  /\ messages' = addMessage(messages, "assistant", out.reply)
            /\ event' = BotEvent("reply", out.failed)
    /\ botPc' = "idle"
    /\ UNCHANGED <<widget, localStorageKey, apiKey, botCall, requests>>
    /\ UNCHANGED <<srvVars, outbox, agentVars, ozVars, pageVars>>

\* A page that runs one of the two chatbots, opened with or without a key
\* saved by an earlier visit
ChatbotInit ==
    /\ ServerConstructed /\ ClientConstructed /\ OzwellConstructed /\ PageConstructed
    /\ \E w \in Widgets : \E k \in {KeyNull, KeyOf(sSkKey)} : BotConstructed(w, k)
ChatbotNext ==
    \/ BotSaveKey
    \/ BotSendMessage
    \/ BotGenerateResponse
    \/ BotHealthAnswer
    \/ BotProxyAnswer
    \/ BotDirectAnswer
    \/ BotReconnect
    \/ BotReconnected
ChatbotSpec == ChatbotInit /\ [][ChatbotNext]_vars

(***************************************************************************)
(* Properties of the chatbots                                              *)
(***************************************************************************)
\* C6: the only network destination that ever receives the user's API key
\* is the AI provider's API; no request to the project's own server
\* carries it.
C6_KeyOnlyToProvider ==
    \A i \in DOMAIN requests :
        KeyPresent(requests[i].apiKey) => requests[i].to = OpenAIHost

Acknowledged(i) ==
    messages[i].type = "assistant" /\ messages[i].content.kind = "Blood Pressure Updated"
StatesVitals(j) ==
    /\ messages[j].type = "assistant"
    /\ messages[j].content.kind \in {"Patient Information", "Current Vital Signs"}
\* the reading of the last acknowledgement before reply j
LastRecorded(j) ==
    messages[CHOOSE i \in 1..(j - 1) :
                 Acknowledged(i) /\ \A k \in (i + 1)..(j - 1) : ~Acknowledged(k)].content.bp

\* C8: once a new blood pressure reading has been acknowledged as
\* recorded, every later patient-information or vital-signs reply of the
\* session states that reading as the current blood pressure.
C8_RecordedReadingReported ==
    \A j \in DOMAIN messages :
        (StatesVitals(j) /\ \E i \in 1..(j - 1) : Acknowledged(i))
            => messages[j].content.bp = LastRecorded(j)

\* C9: when a key with prefix 'sk-' is configured and the OpenAI request
\* fails, the reply is the rule-based response for the message.
C9_FailureFallsBackToRules ==
    [][(/\ event'.type = "chatbot" /\ event'.op = "reply" /\ event'.failed
        /\ UsableKey(botCall.apiKey))
       => messages'[Len(messages')].content = RuleBasedResponse(botCall.message)]_vars

\* C12: in OzwelAIChatbot, in every state where a key with prefix 'sk-'
\* is configured and no reconnect is in progress, the connection status
\* shows 'Connected (Ozwel AI)'.
C12_StatusShowsAIConnected ==
    (widget = "OzwelAIChatbot" /\ UsableKey(apiKey) /\ reconnecting = 0)
        => connectionStatus = "Connected (Ozwel AI)"

(***************************************************************************)
(* OzwellIntegration                                                       *)
(***************************************************************************)
sOzKey == <<"o","z","-","k","e","y">>
sParacetamol == <<"P","a","r","a","c","e","t","a","m","o","l">>
s650mg == <<"6","5","0","m","g">>
s500mg == <<"5","0","0","m","g">>

\* the tools context MCPClient hands to updateToolsContext
JArray(items) == [t |-> "array", items |-> items]
ToolsContext == [t |-> "context", availableTools |-> JArray(ToolNames)]
\* a context object that has no availableTools
ContextWithoutTools == [t |-> "context", availableTools |-> Undefined]
\* the arguments updateToolsContext is called with
ToolsContextArgs == {ToolsContext, ContextWithoutTools, Undefined}

\* updateToolsContext(arg): this.toolsContext after the call.  Reading
\* availableTools of undefined throws before the assignment; the map over
\* a missing availableTools throws after it.
updateToolsContext(current, arg) ==
    IF arg.t = "undefined" THEN [toolsContext |-> current, threw |-> TRUE]
    ELSE [toolsContext |-> arg, threw |-> arg.availableTools.t = "undefined"]

\* what fetch('../.env') followed by parseEnvFile yields: ok is response.ok
\* (a rejected fetch changes as little as a response that is not ok), key is
\* envVars.OZWELL_API_KEY (<<>> when missing or empty), force is
\* envVars.FORCE_SIMULATION_MODE === 'true'
Env(isOk, key, force) == [ok |-> isOk, key |-> key, force |-> force]
EnvResponses ==
    {Env(FALSE, <<>>, FALSE), Env(TRUE, <<>>, FALSE), Env(TRUE, sOzKey, FALSE),
     Env(TRUE, sOzKey, TRUE), Env(TRUE, <<>>, TRUE)}

\* loadEnvironmentVariables: the key and the mode after the load
loadEnvironmentVariables(key, sim, env) ==
    [apiKey |-> IF env.ok /\ Len(env.key) > 0 THEN KeyOf(env.key) ELSE key,
     sim |-> IF env.ok /\ env.force THEN TRUE ELSE sim]

Simulated(text, toolName, params) ==
    [kind |-> "simulated", text |-> text, toolName |-> toolName, params |-> params]
RealResponse == [kind |-> "real"]
OzRejected == [kind |-> "rejected"]

\* messages[messages.length - 1]?.content || ''
LastContent(msgs) == IF Len(msgs) = 0 THEN <<>> ELSE msgs[Len(msgs)].content

\* simulateOzwellAPI once it has found a tools context: the reply for the
\* lower-cased last message msg
simulateWithTools(msg) ==
    IF \/ includes(msg, <<"p","r","e","s","c","r","i","b","e">>) \/ includes(msg, <<"a","d","d">>)
            \/ includes(msg, <<"g","i","v","e">>)
            \/ (includes(msg, <<"d","o","l","o">>)
                /\ (includes(msg, <<"6","5","0">>) \/ includes(msg, <<"p","a","r","a","c","e","t","a","m","o","l">>)))
    THEN Simulated("I'll add the medication", "addMedication",
             <<sParacetamol,
               IF includes(msg, <<"d","o","l","o">>) /\ includes(msg, <<"6","5","0">>) THEN s650mg
               ELSE IF includes(msg, <<"p","a","r","a","c","e","t","a","m","o","l">>)
               THEN IF includes(msg, <<"6","5","0">>) THEN s650mg ELSE s500mg
               ELSE s650mg>>)
    ELSE IF includes(msg, <<"a","l","l","e","r","g","y">>) \/ includes(msg, <<"a","l","l","e","r","g","i","c">>)
    THEN Simulated("I'll help you add an allergy", "getContext", <<>>)
    ELSE IF \/ includes(msg, <<"c","o","n","t","e","x","t">>) \/ includes(msg, <<"p","a","t","i","e","n","t">>)
            \/ includes(msg, <<"i","n","f","o","r","m","a","t","i","o","n">>) \/ includes(msg, <<"s","h","o","w">>)
            \/ includes(msg, <<"c","u","r","r","e","n","t">>)
    THEN Simulated("I'll retrieve the current patient information", "getContext", <<>>)
    ELSE Simulated("I'll help you with that", "getContext", <<>>)

\* !this.toolsContext || !this.toolsContext.availableTools
NoTools(context) == context.t = "undefined" \/ context.availableTools.t = "undefined"

\* simulateOzwellAPI that does not look at the tools context
simulateOzwellAPIAnyContext(msgs, context) ==
    simulateWithTools(toLowerCase(LastContent(msgs)))

\* simulateOzwellAPI
simulateOzwellAPI(msgs, context) ==
    IF NoTools(context)
    THEN Simulated("I need to connect to the medical system first", "getContext", <<>>)
    ELSE simulateWithTools(toLowerCase(LastContent(msgs)))

\* generateResponse from the check that follows the .env load to its first
\* await: the mode, and either the simulated result or the real call
generateResponseAfterLoad(key, sim, context, msgs) ==
    LET mode == IF ~KeyPresent(key) /\ ~sim THEN TRUE ELSE sim
    IN  IF mode
        THEN [sim |-> mode, calls |-> FALSE, result |-> simulateOzwellAPI(msgs, context)]
        ELSE [sim |-> mode, calls |-> TRUE, result |-> NoResult]

\* generateResponse with the catch around callOzwellAPI left out
generateResponseAfterAPINoCatch(threw, context, msgs) ==
    IF threw THEN OzRejected ELSE RealResponse

\* generateResponse after callOzwellAPI settled: its response, or the
\* simulated one when it threw
generateResponseAfterAPI(threw, context, msgs) ==
    IF threw THEN simulateOzwellAPI(msgs, context) ELSE RealResponse

UserMsg(content) == [role |-> "user", content |-> content]
OzMessages ==
    {<<>>, <<UserMsg(<<"P","r","e","s","c","r","i","b","e"," ","D","o","l","o"," ","6","5","0">>)>>, <<UserMsg(<<"a","d","d"," ","p","a","r","a","c","e","t","a","m","o","l">>)>>,
     <<UserMsg(<<"P","a","t","i","e","n","t"," ","i","s"," ","a","l","l","e","r","g","i","c"," ","t","o"," ","s","u","l","f","a">>)>>,
     <<UserMsg(<<"h","e","l","l","o">>), UserMsg(<<"S","h","o","w"," ","c","u","r","r","e","n","t"," ","c","o","n","t","e","x","t">>)>>,
     <<UserMsg(<<"A","d","d"," ","s","u","l","f","a"," ","a","l","l","e","r","g","y">>)>>,
     <<UserMsg(<<"h","e","l","l","o">>)>>}

OzEvent(op, returned, threw) ==
    [type |-> "ozwell", op |-> op, returned |-> returned, threw |-> threw]

\* The loadEnvironmentVariables call of the constructor settles
OzConstructorEnvLoaded ==
    /\ ozEnvLoading
    /\ \E env \in EnvResponses :
        LET loaded == loadEnvironmentVariables(ozApiKey, useSimulationMode, env)
        IN  /\ ozApiKey' = loaded.apiKey
            /\ useSimulationMode' = loaded.sim
    /\ ozEnvLoading' = FALSE
    /\ event' = OzEvent("loadEnvironmentVariables", FALSE, FALSE)
    /\ UNCHANGED <<toolsContext, ozPc, ozCall, ozResult>>
    /\ UNCHANGED <<srvVars, outbox, agentVars, botVars, pageVars>>

\* configure(config) with or without an apiKey and forceRealAPI
OzConfigure ==
    /\ \E key \in {KeyNull, KeyOf(<<>>), KeyOf(sOzKey)} : \E forceRealAPI \in BOOLEAN :
        /\ ozApiKey' = IF KeyPresent(key) THEN key ELSE ozApiKey
        /\ useSimulationMode' = IF forceRealAPI THEN FALSE ELSE useSimulationMode
    /\ event' = OzEvent("configure", FALSE, FALSE)
    /\ UNCHANGED <<toolsContext, ozEnvLoading, ozPc, ozCall, ozResult>>
    /\ UNCHANGED <<srvVars, outbox, agentVars, botVars, pageVars>>

\* testConnection: a successful call of the real API turns simulation off
OzTestConnection ==
    /\ \E env \in EnvResponses : \E threw \in BOOLEAN :
        LET loaded == IF KeyPresent(ozApiKey)
                      THEN [apiKey |-> ozApiKey, sim |-> useSimulationMode]
                      ELSE loadEnvironmentVariables(ozApiKey, useSimulationMode, env)
        IN  /\ ozApiKey' = loaded.apiKey
            /\ useSimulationMode' =
                   IF KeyPresent(loaded.apiKey) /\ ~threw THEN FALSE ELSE loaded.sim
    /\ event' = OzEvent("testConnection", FALSE, FALSE)
    /\ UNCHANGED <<toolsContext, ozEnvLoading, ozPc, ozCall, ozResult>>
    /\ UNCHANGED <<srvVars, outbox, agentVars, botVars, pageVars>>

OzEnableSimulationMode ==
    /\ useSimulationMode' = TRUE
    /\ event' = OzEvent("enableSimulationMode", FALSE, FALSE)
    /\ UNCHANGED <<ozApiKey, toolsContext, ozEnvLoading, ozPc, ozCall, ozResult>>
    /\ UNCHANGED <<srvVars, outbox, agentVars, botVars, pageVars>>

OzRetryAPIMode ==
    /\ useSimulationMode' = FALSE
    /\ event' = OzEvent("retryAPIMode", FALSE, FALSE)
    /\ UNCHANGED <<ozApiKey, toolsContext, ozEnvLoading, ozPc, ozCall, ozResult>>
    /\ UNCHANGED <<srvVars, outbox, agentVars, botVars, pageVars>>

OzUpdateToolsContext ==
    /\ \E arg \in ToolsContextArgs :
        LET updated == updateToolsContext(toolsContext, arg)
        IN  /\ toolsContext' = updated.toolsContext
            /\ event' = OzEvent("updateToolsContext", FALSE, updated.threw)
    /\ UNCHANGED <<ozApiKey, useSimulationMode, ozEnvLoading, ozPc, ozCall, ozResult>>
    /\ UNCHANGED <<srvVars, outbox, agentVars, botVars, pageVars>>

\* generateResponse(messages) is called: with no key it awaits the .env
\* load, with a key it goes straight to the mode check
OzGenerateResponse ==
    /\ ozPc = "idle"
    /\ \E msgs \in OzMessages :
        IF ~KeyPresent(ozApiKey)
        THEN /\ ozPc' = "env"
             /\ ozCall' = [messages |-> msgs, apiKey |-> KeyNull]
             /\ event' = OzEvent("generateResponse", FALSE, FALSE)
             /\ UNCHANGED <<useSimulationMode, ozResult>>
        ELSE LET next == generateResponseAfterLoad(ozApiKey, useSimulationMode,
                                                   toolsContext, msgs)
             IN  /\ useSimulationMode' = next.sim
                 /\ ozPc' = IF next.calls THEN "api" ELSE "idle"
                 /\ ozCall' = [messages |-> msgs,
                               apiKey |-> IF next.calls THEN ozApiKey ELSE KeyNull]
                 /\ ozResult' = IF next.calls THEN ozResult ELSE next.result
                 /\ event' = OzEvent("generateResponse", ~next.calls, FALSE)
    /\ UNCHANGED <<ozApiKey, toolsContext, ozEnvLoading>>
    /\ UNCHANGED <<srvVars, outbox, agentVars, botVars, pageVars>>

\* The .env load that generateResponse awaits settles
OzGenerateEnvLoaded ==
    /\ ozPc = "env"
    /\ \E env \in EnvResponses :
        LET loaded == loadEnvironmentVariables(ozApiKey, useSimulationMode, env)
            next == generateResponseAfterLoad(loaded.apiKey, loaded.sim,
                                              toolsContext, ozCall.messages)
        IN  /\ ozApiKey' = loaded.apiKey
            /\ useSimulationMode' = next.sim
            /\ ozPc' = IF next.calls THEN "api" ELSE "idle"
            /\ ozCall' = [ozCall EXCEPT !.apiKey = IF next.calls THEN loaded.apiKey
                                                   ELSE KeyNull]
            /\ ozResult' = IF next.calls THEN ozResult ELSE next.result
            /\ event' = OzEvent("generateResponse after load", ~next.calls, FALSE)
    /\ UNCHANGED <<toolsContext, ozEnvLoading>>
    /\ UNCHANGED <<srvVars, outbox, agentVars, botVars, pageVars>>

\* callOzwellAPI settles: with the response, or by throwing
OzAPIAnswer ==
    /\ ozPc = "api"
    /\ \E threw \in BOOLEAN :
        /\ ozResult' = generateResponseAfterAPI(threw, toolsContext, ozCall.messages)
        /\ event' = OzEvent("callOzwellAPI", TRUE, threw)
    /\ ozPc' = "idle"
    /\ UNCHANGED <<ozApiKey, useSimulationMode, toolsContext, ozEnvLoading, ozCall>>
    /\ UNCHANGED <<srvVars, outbox, agentVars, botVars, pageVars>>

OzwellInit ==
    /\ ServerConstructed /\ ClientConstructed
    /\ BotConstructed("SimpleChatbot", KeyNull) /\ OzwellConstructed /\ PageConstructed
OzwellNext ==
    \/ OzConstructorEnvLoaded
    \/ OzConfigure
    \/ OzTestConnection
    \/ OzEnableSimulationMode
    \/ OzRetryAPIMode
    \/ OzUpdateToolsContext
    \/ OzGenerateResponse
    \/ OzGenerateEnvLoaded
    \/ OzAPIAnswer
OzwellSpec == OzwellInit /\ [][OzwellNext]_vars

(***************************************************************************)
(* Properties of OzwellIntegration                                         *)
(***************************************************************************)
\* generateResponse reaches its mode check in this step
OzDecides ==
    \/ ozPc = "env" /\ ozPc' # "env"
    \/ /\ event'.type = "ozwell" /\ event'.op = "generateResponse"
       /\ ozPc = "idle" /\ KeyPresent(ozApiKey)
OzReturnsSimulated ==
    /\ ozPc' = "idle"
    /\ event'.type = "ozwell" /\ event'.returned
    /\ ozResult' = simulateOzwellAPI(ozCall'.messages, toolsContext')

\* C10: generateResponse never fails.  In simulation mode or with no API
\* key it returns the simulated response for the messages without calling
\* the API; when the real call throws it returns the simulated response
\* too; and the real API is called only with simulation mode off and an
\* API key present.
C10_GenerateResponseNeverFails ==
    /\ [](ozResult.kind # "rejected")
    /\ [][OzDecides =>
            IF useSimulationMode \/ useSimulationMode' \/ ~KeyPresent(ozApiKey')
            THEN OzReturnsSimulated
            ELSE ozPc' = "api"]_vars
    /\ [][(ozPc = "api" /\ ozPc' # "api") =>
            /\ event'.returned
            /\ ozResult'.kind \in {"simulated", "real"}
            /\ event'.threw =>
                   ozResult' = simulateOzwellAPI(ozCall.messages, toolsContext)
            /\ ozResult'.kind = "real" => ~event'.threw]_vars
    /\ [][(ozPc # "api" /\ ozPc' = "api") =>
            /\ ~useSimulationMode' /\ KeyPresent(ozApiKey')
            /\ ozCall'.apiKey = ozApiKey']_vars
    /\ [][(ozResult' # ozResult /\ ozResult'.kind = "real") => ozPc = "api"]_vars

\* the real call threw and the simulated tool call was returned instead
C10_Witness ==
    /\ event.type = "ozwell" /\ event.op = "callOzwellAPI" /\ event.threw
    /\ ozPc = "idle"
    /\ toolsContext # Undefined
    /\ ozResult.kind = "simulated" /\ ozResult.toolName = "addMedication"

\* simulateOzwellAPI returned its response in this step
OzSimulates ==
    /\ event'.type = "ozwell" /\ event'.returned
    /\ ozResult'.kind = "simulated"
sAllergy == <<"a","l","l","e","r","g","y">>
sAllergic == <<"a","l","l","e","r","g","i","c">>
LastAsked == toLowerCase(LastContent(ozCall'.messages))

\* C19: until updateToolsContext has supplied a tools context with
\* availableTools, every response of simulateOzwellAPI requests getContext
\* with empty parameters, whatever the user message says; and a context is
\* kept exactly when the argument is one, its availableTools missing or not.
C19_ContextFirst ==
    /\ [][(OzSimulates /\ NoTools(toolsContext'))
          => /\ ozResult'.toolName = "getContext"
             /\ ozResult'.params = <<>>]_vars
    /\ [][toolsContext' # toolsContext
          => /\ event'.type = "ozwell" /\ event'.op = "updateToolsContext"
             /\ toolsContext'.t = "context"
             /\ event'.threw <=> NoTools(toolsContext')]_vars
\* a context without availableTools was supplied, a medication was asked
\* for and getContext was answered
C19_Witness ==
    /\ event.type = "ozwell" /\ event.returned
    /\ toolsContext = ContextWithoutTools
    /\ includes(toLowerCase(LastContent(ozCall.messages)), <<"a","d","d">>)
    /\ ozResult.kind = "simulated"
    /\ ozResult.toolName = "getContext"

\* C20 as stated: with a tools context present, simulateOzwellAPI answers
\* every message that contains 'allergy' or 'allergic' with a getContext
\* directive and never with an addMedication directive.
C20_AllergyGetsContext ==
    [][(/\ OzSimulates
        /\ ~NoTools(toolsContext')
        /\ includes(LastAsked, sAllergy) \/ includes(LastAsked, sAllergic))
       => ozResult'.toolName = "getContext"]_vars

(***************************************************************************)
(* The directive format: what simulateOzwellAPI writes and what            *)
(* parseOzwellToolCalls reads                                              *)
(***************************************************************************)
sFrequency == "every 6-8 hours as needed"
sIndication == "Pain and fever relief"
\* the object the PARAMS line of a simulated response spells out
SimulatedParams(sim) ==
    IF sim.toolName = "addMedication"
    THEN JObj([name |-> sim.params[1], dose |-> sim.params[2],
               frequency |-> sFrequency, indication |-> sIndication])
    ELSE NoArgs
\* the template literal simulateOzwellAPI returns: a sentence, an empty
\* line, the TOOL_CALL: line and the PARAMS: line
SimulatedText(sim) ==
    StringResponse(<<Line("text", ""), Line("text", ""),
                     Line("TOOL_CALL:", sim.toolName),
                     Line("PARAMS:", JsonText(SimulatedParams(sim)))>>)

MaxLines == 3       \* the texts parsed have at most this many lines
ParseLines ==
    {Line("text", "")}
    \cup {Line("TOOL_CALL:", n) : n \in {"getContext", "addMedication", ""}}
    \cup {Line("PARAMS:", p) : p \in {JsonText(NoArgs), JsonText(pAspirin),
                                      JsonText(JNull), NotJson(sAspirin)}}
ParseInputs ==
    {StringResponse(lines) :
        lines \in UNION {[1..n -> ParseLines] : n \in 0..MaxLines}}
    \cup {NullResponse, MessageObject(NullResponse, <<>>)}

\* the calls: parseOzwellToolCalls(response) for a response of any kind,
\* and parseOzwellToolCalls(await simulateOzwellAPI(messages)) with the
\* tools context as it is at the call
ParseCalls ==
    {[type |-> "response", response |-> r] : r \in ParseInputs}
    \cup {[type |-> "messages", messages |-> m, context |-> c] :
            m \in OzMessages, c \in {Undefined, ContextWithoutTools, ToolsContext}}

\* parseOzwellToolCalls(response)
ParseResponse ==
    /\ event.type = "response"
    /\ event' = [type |-> "parse", response |-> event.response,
                 parsed |-> parseOzwellToolCalls(event.response)]
    /\ outbox' = <<>>
    /\ UNCHANGED <<srvVars, agentVars, widgetVars>>

\* parseOzwellToolCalls(await simulateOzwellAPI(messages))
ParseSimulated ==
    /\ event.type = "messages"
    /\ LET sim == simulateOzwellAPI(event.messages, event.context)
       IN  event' = [type |-> "parse-simulated", simulated |-> sim,
                     parsed |-> parseOzwellToolCalls(SimulatedText(sim))]
    /\ outbox' = <<>>
    /\ UNCHANGED <<srvVars, agentVars, widgetVars>>

ParseInit ==
    /\ localMedications = <<>>
    /\ localAllergies = <<>>
    /\ initialized = FALSE
    /\ now = StartClock
    /\ outbox = <<>>
    /\ ClientConstructed /\ WidgetsConstructed
    /\ event \in ParseCalls
ParseNext == ParseResponse \/ ParseSimulated
ParseSpec == ParseInit /\ [][ParseNext]_vars

LinesWith(lines, head) == {i \in DOMAIN lines : lines[i].head = head}
TheLine(lines, head) == lines[CHOOSE i \in LinesWith(lines, head) : TRUE]
\* exactly one 'TOOL_CALL: name' line and one 'PARAMS: json' line
OneDirective(response) ==
    /\ response.kind = "string"
    /\ Cardinality(LinesWith(response.lines, "TOOL_CALL:")) = 1
    /\ TheLine(response.lines, "TOOL_CALL:").rest # ""
    /\ Cardinality(LinesWith(response.lines, "PARAMS:")) = 1
    /\ TheLine(response.lines, "PARAMS:").rest.json

\* C18: parsing inverts the directive format.  A text with exactly one
\* 'TOOL_CALL: name' line and one 'PARAMS: json' line parses to exactly
\* one call with that name and the decoded parameters; every response of
\* simulateOzwellAPI parses to exactly one call, naming getContext or
\* addMedication as the response does, with the object it spelled out as
\* parameters; a text without a TOOL_CALL line, and a response that is no
\* string, parse to no call.
C18_ParseInvertsFormat ==
    /\ (event.type = "parse" /\ OneDirective(event.response))
        => event.parsed =
             Parsed(<< [name |-> TheLine(event.response.lines, "TOOL_CALL:").rest,
                        parameters |->
                            TheLine(event.response.lines, "PARAMS:").rest.value,
                        provider |-> "ozwell"] >>)
    /\ (event.type = "parse" /\ event.response.kind # "string")
        => event.parsed = Parsed(<<>>)
    /\ (/\ event.type = "parse" /\ event.response.kind = "string"
        /\ LinesWith(event.response.lines, "TOOL_CALL:") = {})
        => event.parsed = Parsed(<<>>)
    /\ event.type = "parse-simulated"
        => /\ ~event.parsed.threw
           /\ Len(event.parsed.calls) = 1
           /\ event.parsed.calls[1].name \in {"getContext", "addMedication"}
           /\ event.parsed.calls[1].name = event.simulated.toolName
           /\ IsObj(event.parsed.calls[1].parameters)
           /\ event.parsed.calls[1].parameters = SimulatedParams(event.simulated)
\* the PARAMS line came first and the call still carries its object
C18_Witness ==
    /\ event.type = "parse"
    /\ event.response.kind = "string"
    /\ event.response.lines = <<Line("PARAMS:", JsonText(pAspirin)), Line("text", ""),
                                Line("TOOL_CALL:", "addMedication")>>
    /\ Len(event.parsed.calls) = 1
    /\ event.parsed.calls[1].parameters = pAspirin

(***************************************************************************)
(* OzwellIframe                                                            *)
(***************************************************************************)
\* what a method leaves behind: isOpen, the container's display, and the
\* messages posted to the iframe
IframeState(open, display, posted) ==
    [isOpen |-> open, display |-> display, posted |-> posted]

\* show()
show == IframeState(TRUE, "block", <<[type |-> "show"]>>)
\* hide()
hide == IframeState(FALSE, "none", <<[type |-> "hide"]>>)

\* toggle() that shows whatever the state is
toggleShowsOnly(open) == show

\* toggle()
toggle(open) == IF open THEN hide ELSE show

\* resize(width, height): "" stands for a missing (falsy) argument
resize(current, wanted) == IF wanted # "" THEN wanted ELSE current

Sizes == {"", "300px", "500px"}
\* event.data of the messages a window posts to the host page
IframeData ==
    {[type |-> "iframe-ready"], [type |-> "close"], [type |-> "navigate"]}
    \cup {[type |-> "resize", width |-> w, height |-> h] : w \in Sizes, h \in Sizes}

IframeEvent(op) == [type |-> "OzwellIframe", op |-> op]

IframeApply(st) ==
    /\ isOpen' = st.isOpen
    /\ containerDisplay' = st.display
    /\ outbox' = st.posted

IframeShow ==
    /\ IframeApply(show)
    /\ event' = IframeEvent("show")
    /\ UNCHANGED <<containerWidth, containerHeight>>
    /\ UNCHANGED <<srvVars, agentVars, botVars, ozVars, statusVars, laterVars>>

IframeHide ==
    /\ IframeApply(hide)
    /\ event' = IframeEvent("hide")
    /\ UNCHANGED <<containerWidth, containerHeight>>
    /\ UNCHANGED <<srvVars, agentVars, botVars, ozVars, statusVars, laterVars>>

IframeToggle ==
    /\ IframeApply(toggle(isOpen))
    /\ event' = IframeEvent("toggle")
    /\ UNCHANGED <<containerWidth, containerHeight>>
    /\ UNCHANGED <<srvVars, agentVars, botVars, ozVars, statusVars, laterVars>>

\* The 'message' listener of setupEventListeners and handleIframeMessage:
\* only a message whose source is the iframe's window is handled
IframeMessage ==
    /\ \E source \in {"iframe", "other window"} : \E data \in IframeData :
        /\ event' = [type |-> "message", source |-> source, data |-> data]
        /\ IF source = "iframe" /\ data.type = "close"
           THEN /\ IframeApply(hide)
                /\ UNCHANGED <<containerWidth, containerHeight>>
           ELSE IF source = "iframe" /\ data.type = "resize"
           THEN /\ containerWidth' = resize(containerWidth, data.width)
                /\ containerHeight' = resize(containerHeight, data.height)
                /\ outbox' = <<>>
                /\ UNCHANGED <<isOpen, containerDisplay>>
           ELSE /\ outbox' = <<>>
                /\ UNCHANGED iframeVars
    /\ UNCHANGED <<srvVars, agentVars, botVars, ozVars, statusVars, laterVars>>

IframeInit ==
    /\ ServerConstructed /\ ClientConstructed /\ WidgetsConstructed
IframeNext ==
    \/ IframeShow
    \/ IframeHide
    \/ IframeToggle
    \/ IframeMessage
IframeSpec == IframeInit /\ [][IframeNext]_vars

(***************************************************************************)
(* Properties of OzwellIframe                                              *)
(***************************************************************************)
\* the 'show' and 'hide' notifications the last task posted to the iframe
Notifications ==
    {i \in DOMAIN outbox : outbox[i].type \in {"show", "hide"}}
\* the last task was show(), hide(), toggle() or a 'close' of the iframe
VisibilityTask ==
    \/ event.type = "OzwellIframe"
    \/ /\ event.type = "message" /\ event.source = "iframe"
       /\ event.data.type = "close"

\* C11: isOpen is true exactly when the container is displayed; toggle()
\* inverts isOpen; and show(), hide(), toggle() and a 'close' message of
\* the iframe each post one notification, which names the state entered.
C11_IframeVisibility ==
    /\ [](isOpen <=> containerDisplay = "block")
    /\ [][(event'.type = "OzwellIframe" /\ event'.op = "toggle")
            => isOpen' = ~isOpen]_vars
    /\ [](\A i \in Notifications :
            outbox[i].type = IF isOpen THEN "show" ELSE "hide")
    /\ [](VisibilityTask => Cardinality(Notifications) = 1 /\ Len(outbox) = 1)
    /\ [](~VisibilityTask => Notifications = {})

\* toggle() has closed a container that had been opened and resized
C11_Witness ==
    /\ event.type = "OzwellIframe" /\ event.op = "toggle"
    /\ ~isOpen /\ containerDisplay = "none"
    /\ outbox = <<[type |-> "hide"]>>
    /\ containerWidth = "500px"

(***************************************************************************)
(* The Express proxy: app.post("/api/openai/chat")                         *)
(***************************************************************************)
JNumber == [t |-> "number"]     \* a number other than 0 and NaN
\* JavaScript falsiness of a JSON value
Falsy(v) == v.t \in {"undefined", "null"} \/ (v.t = "string" /\ Len(v.s) = 0)

sUnknownError == <<"U","n","k","n","o","w","n"," ","e","r","r","o","r">>
sProxyErrorPrefix == <<"O","z","w","e","l","l"," ","A","I"," ","A","P","I"," ","E","r","r","o","r",":"," ">>

\* req.body as express.json() parsed it: apiKey missing, null, a string or
\* a number
ProxyBodies ==
    {[message |-> <<"h","e","l","l","o">>, apiKey |-> k] :
        k \in {Undefined, JNull, JStr(<<>>), JStr(sPlainKey), JStr(sSkKey), JNumber}}

\* what api.openai.com answers the proxy: message is error.message of a
\* JSON error body, <<>> when the body has none
UpstreamAnswer(status, isJson, message, choices) ==
    [rejects |-> FALSE, status |-> status, isJson |-> isJson, message |-> message,
     choices |-> choices]
ProxyUpstreamAnswers ==
    {UpstreamAnswer(200, TRUE, <<>>, 1), UpstreamAnswer(200, TRUE, <<>>, 0),
     UpstreamAnswer(200, FALSE, <<>>, 0),
     UpstreamAnswer(401, TRUE, sIncorrectKey, 0), UpstreamAnswer(429, TRUE, sRateLimit, 0),
     UpstreamAnswer(500, TRUE, <<>>, 0), UpstreamAnswer(502, FALSE, <<>>, 0),
     [rejects |-> TRUE, status |-> 0, isJson |-> FALSE, message |-> <<>>, choices |-> 0]}

\* the handler up to its first await: the response it sends at once, or
\* none when it goes on to call api.openai.com.  apiKey.startsWith of a
\* value that is no string throws, and the catch answers 500.
chatHandler(body) ==
    IF Falsy(body.apiKey) THEN <<Response(400, TRUE, sInvalidKey, 0)>>
    ELSE IF body.apiKey.t # "string" THEN <<Response(500, TRUE, sInternalError, 0)>>
    ELSE IF ~startsWith(body.apiKey.s, sSkPrefix)
    THEN <<Response(400, TRUE, sInvalidKey, 0)>>
    ELSE <<>>

\* the handler after the fetch of api.openai.com settled: a body that is
\* not JSON makes openaiResponse.json() throw, and the catch answers 500
chatHandlerAfterFetch(u) ==
    IF u.rejects THEN <<Response(500, TRUE, sInternalError, 0)>>
    ELSE IF ~u.isJson THEN <<Response(500, TRUE, sInternalError, 0)>>
    ELSE IF ~ok(u)
    THEN <<Response(u.status, TRUE,
                    sProxyErrorPrefix \o (IF Len(u.message) > 0 THEN u.message
                                          ELSE sUnknownError), 0)>>
    ELSE <<Response(200, TRUE, <<>>, u.choices)>>

\* Request r arrives; other requests may still be waiting for OpenAI
ProxyRequest ==
    /\ \E r \in ProxyRequestIds : \E body \in ProxyBodies :
        /\ proxyPc[r] = "not sent"
        /\ proxyBody' = [proxyBody EXCEPT ![r] = body]
        /\ proxySent' = [proxySent EXCEPT ![r] = chatHandler(body)]
        /\ proxyContacted' = [proxyContacted EXCEPT ![r] = (chatHandler(body) = <<>>)]
        /\ proxyPc' = [proxyPc EXCEPT ![r] = IF chatHandler(body) = <<>> THEN "upstream"
                                             ELSE "answered"]
        /\ event' = [type |-> "proxy", op |-> "request", id |-> r]
    /\ outbox' = <<>>
    /\ UNCHANGED proxyUpstream
    /\ UNCHANGED <<srvVars, agentVars, botVars, ozVars, iframeVars, statusVars, dataVars, frameVars>>

\* The fetch of api.openai.com that request r awaits settles
ProxyUpstreamSettles ==
    /\ \E r \in ProxyRequestIds : \E u \in ProxyUpstreamAnswers :
        /\ proxyPc[r] = "upstream"
        /\ proxyUpstream' = [proxyUpstream EXCEPT ![r] = u]
        /\ proxySent' = [proxySent EXCEPT ![r] = proxySent[r] \o chatHandlerAfterFetch(u)]
        /\ proxyPc' = [proxyPc EXCEPT ![r] = "answered"]
        /\ event' = [type |-> "proxy", op |-> "upstream", id |-> r]
    /\ outbox' = <<>>
    /\ UNCHANGED <<proxyBody, proxyContacted>>
    /\ UNCHANGED <<srvVars, agentVars, botVars, ozVars, iframeVars, statusVars, dataVars, frameVars>>

ProxyInit == ServerConstructed /\ ClientConstructed /\ WidgetsConstructed
ProxyNext ==
    \/ ProxyRequest
    \/ ProxyUpstreamSettles
ProxySpec == ProxyInit /\ [][ProxyNext]_vars

(***************************************************************************)
(* Properties of the proxy                                                 *)
(***************************************************************************)
\* apiKey is a string that starts with 'sk-'
StartsWithSk(v) == v.t = "string" /\ startsWith(v.s, sSkPrefix)

\* C13: the proxy sends exactly one response per request: 400 'Invalid
\* API key' without contacting OpenAI when apiKey is missing or does not
\* start with 'sk-'; otherwise 500 when the upstream call throws, the
\* upstream status with an error body when OpenAI answers non-OK, and the
\* upstream JSON when it answers OK.
C13_ProxyAnswersOnce ==
    \A r \in ProxyRequestIds :
        proxyPc[r] = "answered" =>
            /\ Len(proxySent[r]) = 1
            /\ IF ~StartsWithSk(proxyBody[r].apiKey)
               THEN /\ proxySent[r][1].status = 400
                    /\ proxySent[r][1].error = sInvalidKey
                    /\ ~proxyContacted[r]
               ELSE /\ proxyContacted[r]
                    /\ IF proxyUpstream[r].rejects
                       THEN proxySent[r][1].status = 500
                       ELSE IF ~ok(proxyUpstream[r])
                       THEN /\ proxySent[r][1].status = proxyUpstream[r].status
                            /\ Len(proxySent[r][1].error) > 0
                       ELSE /\ proxySent[r][1].status = 200
                            /\ proxySent[r][1].choices = proxyUpstream[r].choices

(***************************************************************************)
(* MedicalDataManager                                                      *)
(***************************************************************************)
MaxPatientMeds == 3         \* addMedication is not called on a list this long
MaxPatientAllergies == 3    \* addAllergy is not called on a list this long

sAmoxicillin == <<"A","m","o","x","i","c","i","l","l","i","n">>
sNSAIDs == <<"N","S","A","I","D","s">>
sNewId1 == <<"m","e","d","-","1","7","-","4">>
sNewId2 == <<"m","e","d","-","1","7","-","9">>

\* drugClasses of checkDrugClassAllergy, in the order Object.entries yields
drugClasses ==
    << [classType |-> <<"p","e","n","i","c","i","l","l","i","n">>,
        drugs |-> {<<"a","m","o","x","i","c","i","l","l","i","n">>,
                   <<"a","m","p","i","c","i","l","l","i","n">>,
                   <<"p","e","n","i","c","i","l","l","i","n">>}],
       [classType |-> <<"s","u","l","f","a">>,
        drugs |-> {<<"s","u","l","f","a","m","e","t","h","o","x","a","z","o","l","e">>,
                   <<"s","u","l","f","a","s","a","l","a","z","i","n","e">>}],
       [classType |-> <<"n","s","a","i","d">>,
        drugs |-> {<<"i","b","u","p","r","o","f","e","n">>,
                   <<"n","a","p","r","o","x","e","n">>,
                   <<"a","s","p","i","r","i","n">>,
                   <<"c","e","l","e","c","o","x","i","b">>}] >>

\* checkDrugClassAllergy: the first class the allergen names decides
checkDrugClassAllergy(medication, allergen) ==
    LET named == {i \in DOMAIN drugClasses : includes(allergen, drugClasses[i].classType)}
    IN  IF named = {} THEN FALSE
        ELSE \E drug \in drugClasses[MinOf(named)].drugs : includes(medication, drug)

\* med and allergen (both lower case) match in checkAllergies
AllergyMatches(med, allergen) ==
    \/ includes(med, allergen) \/ includes(allergen, med)
    \/ checkDrugClassAllergy(med, allergen)

\* checkAllergies: the first allergy of the list that matches
checkAllergies(allergies, medicationName) ==
    LET med == toLowerCase(medicationName)
        hits == {i \in DOMAIN allergies :
                    AllergyMatches(med, toLowerCase(allergies[i].allergen))}
    IN  IF hits = {} THEN [hasAllergy |-> FALSE, allergen |-> <<>>]
        ELSE [hasAllergy |-> TRUE, allergen |-> allergies[MinOf(hits)].allergen]

ActiveMeds(medications) == SelectSeq(medications, LAMBDA m : m.status = "active")
NamesOf(medications) ==
    IF Len(medications) = 0 THEN <<>>
    ELSE [i \in 1..Len(medications) |-> medications[i].name]

\* checkMedicationAllergies
checkMedicationAllergies(data, newAllergen) ==
    NamesOf(SelectSeq(ActiveMeds(data.medications), LAMBDA m :
        LET allergyCheck == checkAllergies(data.allergies, m.name)
        IN  /\ allergyCheck.hasAllergy
            /\ toLowerCase(allergyCheck.allergen) = toLowerCase(newAllergen)))

\* what a method of the manager leaves behind and returns
DataResult(data, saved, success, warnings) ==
    [data |-> data, saved |-> saved, success |-> success, warnings |-> warnings]

\* addMedication(medicationData) with name and the id generateId made
managerAddMedication(data, name, id) ==
    IF \E i \in DOMAIN data.medications :
            /\ toLowerCase(data.medications[i].name) = toLowerCase(name)
            /\ data.medications[i].status = "active"
    THEN DataResult(data, FALSE, FALSE, <<>>)
    ELSE LET allergyCheck == checkAllergies(data.allergies, name)
         IN  DataResult([data EXCEPT !.medications = Append(@, PatientMed(id, name, "active"))],
                        TRUE, TRUE,
                        IF allergyCheck.hasAllergy THEN <<allergyCheck.allergen>>
                        ELSE <<>>)

\* discontinueMedication that removes the medication from the list
managerDiscontinueByDeleting(data, medId) ==
    LET byId == {i \in DOMAIN data.medications :
                    data.medications[i].id = medId
                    /\ data.medications[i].status = "active"}
        byName == {i \in DOMAIN data.medications :
                    toLowerCase(data.medications[i].name) = toLowerCase(medId)
                    /\ data.medications[i].status = "active"}
        found == IF byId # {} THEN MinOf(byId)
                 ELSE IF byName # {} THEN MinOf(byName) ELSE 0
    IN  IF found = 0 THEN DataResult(data, FALSE, FALSE, <<>>)
        ELSE DataResult([data EXCEPT !.medications =
                            SubSeq(@, 1, found - 1) \o SubSeq(@, found + 1, Len(@))],
                        TRUE, TRUE, <<>>)

\* discontinueMedication(medId): the first active medication with that id,
\* else the first active one with that name
managerDiscontinueMedication(data, medId) ==
    LET byId == {i \in DOMAIN data.medications :
                    data.medications[i].id = medId
                    /\ data.medications[i].status = "active"}
        byName == {i \in DOMAIN data.medications :
                    toLowerCase(data.medications[i].name) = toLowerCase(medId)
                    /\ data.medications[i].status = "active"}
        found == IF byId # {} THEN MinOf(byId)
                 ELSE IF byName # {} THEN MinOf(byName) ELSE 0
    IN  IF found = 0 THEN DataResult(data, FALSE, FALSE, <<>>)
        ELSE DataResult([data EXCEPT !.medications[found].status = "discontinued"],
                        TRUE, TRUE, <<>>)

\* addAllergy(allergyData) with allergen
managerAddAllergy(data, allergen) ==
    IF \E i \in DOMAIN data.allergies :
            toLowerCase(data.allergies[i].allergen) = toLowerCase(allergen)
    THEN DataResult(data, FALSE, FALSE, <<>>)
    ELSE LET added == [data EXCEPT !.allergies = Append(@, [allergen |-> allergen])]
         IN  DataResult(added, TRUE, TRUE, checkMedicationAllergies(added, allergen))

\* getContext(), as far as the medications go
managerGetContext(data) ==
    [medications |-> ActiveMeds(data.medications),
     totalMedications |-> Len(ActiveMeds(data.medications)),
     allergies |-> data.allergies,
     totalAllergies |-> Len(data.allergies)]

\* resetToDemo(): the entry is removed, then this.constructor() is a call of
\* a class constructor without new, which throws a TypeError
resetToDemo(data) ==
    [data |-> data, stored |-> NotStored, threw |-> TRUE, success |-> FALSE]

MedNames == {sAmoxicillin, sAspirin, sASPIRIN, sLisinopril}
Allergens == {sAmoxicillin, sPenicillin, sNSAIDs, sAspirin}
MedRefs == {sMed001, sNewId1, sLisinopril, sASPIRIN, sPen}

DataEvent(op, arg, result) ==
    [type |-> "MedicalDataManager", op |-> op, arg |-> arg, result |-> result]
\* patientData and the stored entry after a method that saves when it changes
DataApply(r) ==
    /\ patientData' = r.data
    /\ medicalData' = IF r.saved THEN Stored(r.data) ELSE medicalData

DataAddMedication ==
    /\ Len(patientData.medications) < MaxPatientMeds
    /\ \E name \in MedNames : \E id \in {sNewId1, sNewId2} :
        LET r == managerAddMedication(patientData, name, id)
        IN  DataApply(r) /\ event' = DataEvent("addMedication", name, r)
    /\ outbox' = <<>>
    /\ UNCHANGED <<srvVars, agentVars, botVars, ozVars, iframeVars, statusVars, proxyVars, frameVars>>

DataDiscontinueMedication ==
    /\ \E medId \in MedRefs :
        LET r == managerDiscontinueMedication(patientData, medId)
        IN  DataApply(r) /\ event' = DataEvent("discontinueMedication", medId, r)
    /\ outbox' = <<>>
    /\ UNCHANGED <<srvVars, agentVars, botVars, ozVars, iframeVars, statusVars, proxyVars, frameVars>>

DataAddAllergy ==
    /\ Len(patientData.allergies) < MaxPatientAllergies
    /\ \E allergen \in Allergens :
        LET r == managerAddAllergy(patientData, allergen)
        IN  DataApply(r) /\ event' = DataEvent("addAllergy", allergen, r)
    /\ outbox' = <<>>
    /\ UNCHANGED <<srvVars, agentVars, botVars, ozVars, iframeVars, statusVars, proxyVars, frameVars>>

DataGetContext ==
    /\ event' = DataEvent("getContext", <<>>, managerGetContext(patientData))
    /\ outbox' = <<>>
    /\ UNCHANGED <<srvVars, agentVars, botVars, ozVars, pageVars>>

DataResetToDemo ==
    /\ LET r == resetToDemo(patientData)
       IN  /\ patientData' = r.data
           /\ medicalData' = r.stored
           /\ event' = DataEvent("resetToDemo", <<>>,
                                 [success |-> r.success, threw |-> r.threw])
    /\ outbox' = <<>>
    /\ UNCHANGED <<srvVars, agentVars, botVars, ozVars, iframeVars, statusVars, proxyVars, frameVars>>

DataInit == ServerConstructed /\ ClientConstructed /\ WidgetsConstructed
DataNext ==
    \/ DataAddMedication
    \/ DataDiscontinueMedication
    \/ DataAddAllergy
    \/ DataGetContext
    \/ DataResetToDemo
DataSpec == DataInit /\ [][DataNext]_vars

(***************************************************************************)
(* Properties of MedicalDataManager                                        *)
(***************************************************************************)
DataStep(op) == event'.type = "MedicalDataManager" /\ event'.op = op

\* C21 as stated: the warnings addAllergy returns name every active
\* medication that conflicts with the newly added allergen, by name
\* containment or by drug class, also when that medication already
\* matches an allergy recorded earlier.
C21_WarningsNameEveryConflict ==
    [][(DataStep("addAllergy") /\ event'.result.success)
       => \A i \in DOMAIN patientData'.medications :
            LET m == patientData'.medications[i]
            IN  (/\ m.status = "active"
                 /\ AllergyMatches(toLowerCase(m.name), toLowerCase(event'.arg)))
                => \E k \in DOMAIN event'.result.warnings :
                        event'.result.warnings[k] = m.name]_vars

\* C22 as stated: after resetToDemo the stored 'medicalData' entry is
\* removed, patientData equals the constructor's demo record, and the call
\* returns success true.
C22_ResetRestoresDemo ==
    [][DataStep("resetToDemo")
       => /\ ~medicalData'.present
          /\ patientData' = DemoPatientData
          /\ event'.result.success]_vars

ActiveAt(data) == {i \in DOMAIN data.medications : data.medications[i].status = "active"}
\* the active medications ref denotes, by id or by name
Denoted(data, ref) ==
    {i \in ActiveAt(data) :
        \/ data.medications[i].id = ref
        \/ toLowerCase(data.medications[i].name) = toLowerCase(ref)}

\* C23: discontinueMedication marks a medication 'discontinued' and never
\* deletes it.  No step shortens the medications list or changes the id or
\* the name of an entry, and none makes a discontinued entry active again;
\* a successful discontinueMedication turns exactly one active entry, one
\* its argument denotes, into a discontinued one; at most one medication
\* per name (case-insensitive) is active; getContext lists exactly the
\* active medications, in order, with totalMedications their count; and
\* discontinueMedication on an argument that denotes no active medication
\* (unknown, or discontinued already) returns success false and changes
\* nothing.
C23_DiscontinueKeepsRecord ==
    /\ [][/\ Len(patientData'.medications) >= Len(patientData.medications)
          /\ \A i \in DOMAIN patientData.medications :
                /\ patientData'.medications[i].id = patientData.medications[i].id
                /\ patientData'.medications[i].name = patientData.medications[i].name
                /\ patientData.medications[i].status = "discontinued"
                    => patientData'.medications[i].status = "discontinued"]_vars
    /\ [][(DataStep("discontinueMedication") /\ event'.result.success)
          => /\ Len(patientData'.medications) = Len(patientData.medications)
             /\ \E i \in Denoted(patientData, event'.arg) :
                    ActiveAt(patientData') = ActiveAt(patientData) \ {i}
             /\ UNCHANGED patientData.allergies]_vars
    /\ [](\A i, j \in ActiveAt(patientData) :
            toLowerCase(patientData.medications[i].name)
                = toLowerCase(patientData.medications[j].name) => i = j)
    /\ [][DataStep("getContext")
          => /\ \A k \in DOMAIN event'.result.medications :
                    event'.result.medications[k].status = "active"
             /\ event'.result.totalMedications = Cardinality(ActiveAt(patientData))
             /\ Len(event'.result.medications) = Cardinality(ActiveAt(patientData))
             /\ \A i \in ActiveAt(patientData) :
                    \E k \in DOMAIN event'.result.medications :
                        event'.result.medications[k] = patientData.medications[i]
             /\ UNCHANGED patientData]_vars
    /\ [][(DataStep("discontinueMedication") /\ Denoted(patientData, event'.arg) = {})
          => ~event'.result.success /\ UNCHANGED <<patientData, medicalData>>]_vars
\* Lisinopril was discontinued, and discontinuing it once more failed with
\* the entry still in the list
C23_Witness ==
    /\ event.type = "MedicalDataManager" /\ event.op = "discontinueMedication"
    /\ event.arg = sLisinopril
    /\ ~event.result.success
    /\ patientData.medications[1].name = sLisinopril
    /\ patientData.medications[1].status = "discontinued"
    /\ Len(patientData.medications) = 3

====
